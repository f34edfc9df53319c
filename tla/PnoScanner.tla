----------------------------- MODULE PnoScanner -----------------------------
(***************************************************************************)
(* Scheduled (PNO) scans: the half of scanning/scanner_impl.cpp that starts *)
(* them over the Offload HAL when it can and over netlink when it cannot,   *)
(* falls back from one to the other, and tells the framework.               *)
(*                                                                          *)
(* wificond has one thread.  Its event loop takes one message at a time off *)
(* the binder, hwbinder and netlink descriptors and runs the whole handler, *)
(* so an action is a handler with every call it makes, into the manager and *)
(* back again included.  What interleaves is the order of the messages.     *)
(***************************************************************************)
EXTENDS OffloadScanManager, SchedScanKernel

VARIABLES
    pno_scan_started,               \* believed to run over netlink
    pno_scan_running_over_offload,
    pno_scan_results_from_offload,  \* what getPnoScanResults will read
    pno_settings,                   \* the last request, kept for a fallback
    pno_scan_event_handler,         \* is the framework subscribed?
    offload_scan_supported,         \* a system property, read once
    watched,                        \* history: the scan the framework was told
                                    \* is running and has heard no end of
    crashed                         \* "no", or how the process ended

scannerVars == <<pno_scan_started, pno_scan_running_over_offload,
                 pno_scan_results_from_offload, pno_settings,
                 pno_scan_event_handler, offload_scan_supported>>

vars == <<offloadVars, kernelVars, scannerVars, watched, crashed>>

(* The ways wificond can end: the CHECK against ENODEV, the Offload HAL     *)
(* proxy dereferenced when it is null, the event handler likewise.          *)
Crash == {"no", "check_enodev", "null_hal", "null_handler"}

TypeOK ==
    /\ OffloadTypeOK
    /\ KernelTypeOK
    /\ pno_scan_started \in BOOLEAN
    /\ pno_scan_running_over_offload \in BOOLEAN
    /\ pno_scan_results_from_offload \in BOOLEAN
    /\ pno_settings \in Plan
    /\ pno_scan_event_handler \in BOOLEAN
    /\ offload_scan_supported \in BOOLEAN
    /\ watched \in Plan
    /\ crashed \in Crash

Init ==
    /\ OffloadInit
    /\ KernelInit
    /\ pno_scan_started = FALSE
    /\ pno_scan_running_over_offload = FALSE
    /\ pno_scan_results_from_offload = FALSE
    /\ pno_settings = NoScan
    /\ pno_scan_event_handler = FALSE
    /\ offload_scan_supported \in BOOLEAN
    /\ watched = NoScan
    /\ crashed = "no"

Alive == crashed = "no"

---------------------------------------------------------------------------
(* StartPnoScanDefault: over netlink.  The caller says what the framework   *)
(* then knows.  ENODEV aborts the process.                                  *)
StartPnoScanDefault(s, res) ==
    /\ StartScheduledScan(s, res)
    /\ pno_scan_started' = (pno_scan_started \/ res = "ok")

(* StartPnoScanOffload: what startScan returns is kept even when it is      *)
(* false and a scan requested earlier runs on.                              *)
StartPnoScanOffload(s, ok) ==
    /\ offload_scan_supported
    /\ startScan(s, ok)
    /\ pno_scan_running_over_offload' = ok

(* startPnoScan.  A framework that is subscribed and gets true for an       *)
(* answer counts on the scan from here on.                                  *)
startPnoScan(s) ==
    /\ Alive
    /\ pno_settings' = s
    /\ pno_scan_results_from_offload' = FALSE
    /\ \/ /\ StartPnoScanOffload(s, TRUE)
          /\ watched' = IF pno_scan_event_handler THEN s ELSE NoScan
          /\ UNCHANGED <<kernelVars, pno_scan_started, crashed>>
       \/ /\ \/ StartPnoScanOffload(s, FALSE)
             \/ /\ ~offload_scan_supported
                /\ UNCHANGED <<offloadVars, pno_scan_running_over_offload>>
          /\ \E res \in {"ok", "error", "enodev"} :
                /\ StartPnoScanDefault(s, res)
                /\ watched' = IF res = "ok" /\ pno_scan_event_handler
                              THEN s ELSE NoScan
                /\ crashed' = IF res = "enodev" THEN "check_enodev" ELSE "no"
    /\ UNCHANGED <<pno_scan_event_handler, offload_scan_supported>>

---------------------------------------------------------------------------
(* Mutant: the flag is cleared and the HAL is left subscribed.              *)
StopPnoScanOffload_FlagOnly ==
    /\ offload_scan_supported
    /\ pno_scan_running_over_offload
    /\ pno_scan_running_over_offload' = FALSE
    /\ UNCHANGED <<managerVars, halVars, cached_scan_results, hal_deaths>>

(* StopPnoScanOffload returns true whatever stopScan returned.              *)
StopPnoScanOffload ==
    /\ offload_scan_supported
    /\ pno_scan_running_over_offload
    /\ \E ok \in BOOLEAN : stopScan(ok)
    /\ pno_scan_running_over_offload' = FALSE

StopPnoScanDefault(ok) ==
    /\ StopScheduledScan(ok)
    /\ pno_scan_started' = (pno_scan_started /\ ~ok)

(* stopPnoScan, which answers ok: it stops the scan over the HAL if one is  *)
(* believed to run there and else the one over netlink, never both.         *)
stopPnoScan(ok) ==
    /\ Alive
    /\ watched' = NoScan
    /\ \/ /\ ok
          /\ StopPnoScanOffload
          /\ UNCHANGED <<kernelVars, offload_status, hal_events,
                         pno_scan_started>>
       \/ /\ ~(offload_scan_supported /\ pno_scan_running_over_offload)
          /\ StopPnoScanDefault(ok)
          /\ UNCHANGED <<offloadVars, pno_scan_running_over_offload>>
    /\ UNCHANGED <<pno_scan_results_from_offload, pno_settings,
                   pno_scan_event_handler, offload_scan_supported,
                   crashed>>

subscribePnoScanEvents ==
    /\ Alive
    /\ pno_scan_event_handler' = TRUE
    /\ UNCHANGED <<offloadVars, kernelVars, pno_scan_started,
                   pno_scan_running_over_offload, pno_settings,
                   pno_scan_results_from_offload, offload_scan_supported,
                   watched, crashed>>

unsubscribePnoScanEvents ==
    /\ Alive
    /\ pno_scan_event_handler' = FALSE
    /\ watched' = NoScan
    /\ UNCHANGED <<offloadVars, kernelVars, pno_scan_started,
                   pno_scan_running_over_offload, pno_settings,
                   pno_scan_results_from_offload, offload_scan_supported, crashed>>

---------------------------------------------------------------------------
(* Mutant: pno_scan_started_ is reset before it is tested.                  *)
OnSchedScanResultsReady_ResetFirst(scan_stopped) ==
    IF ~pno_scan_event_handler
    THEN UNCHANGED <<pno_scan_started, pno_scan_results_from_offload, watched>>
    ELSE /\ pno_scan_started' = (pno_scan_started /\ ~scan_stopped)
         /\ pno_scan_results_from_offload' =
               (pno_scan_results_from_offload /\ scan_stopped)
         /\ UNCHANGED watched

(* OnSchedScanResultsReady: without a handler the event changes nothing,    *)
(* not even pno_scan_started.                                               *)
OnSchedScanResultsReady(scan_stopped) ==
    IF ~pno_scan_event_handler
    THEN UNCHANGED <<pno_scan_started, pno_scan_results_from_offload, watched>>
    ELSE IF scan_stopped
    THEN /\ watched' = IF pno_scan_started THEN NoScan ELSE watched
         /\ pno_scan_started' = FALSE
         /\ UNCHANGED pno_scan_results_from_offload
    ELSE /\ pno_scan_results_from_offload' = FALSE
         /\ UNCHANGED <<pno_scan_started, watched>>

(* The event loop takes the next event off the netlink socket.              *)
DispatchKernelEvent ==
    /\ Alive
    /\ kernel_events # <<>>
    /\ kernel_events' = Tail(kernel_events)
    /\ OnSchedScanResultsReady(Head(kernel_events) # "results")
    /\ UNCHANGED <<offloadVars, kernel_plan, pno_scan_running_over_offload,
                   pno_settings, pno_scan_event_handler,
                   offload_scan_supported, crashed>>

---------------------------------------------------------------------------
(* Mutant: the fallback's failure is logged and not reported.               *)
OnOffloadError_Unreported ==
    IF ~pno_scan_running_over_offload
    THEN UNCHANGED <<managerVars, halVars, cached_scan_results, hal_deaths,
                     kernelVars, scannerVars, watched, crashed>>
    ELSE /\ StopPnoScanOffload
         /\ \E res \in {"ok", "error"} :
               StartPnoScanDefault(pno_settings, res)
         /\ UNCHANGED <<pno_scan_results_from_offload, pno_settings,
                        pno_scan_event_handler, offload_scan_supported,
                        watched, crashed>>

(* OnOffloadError on behalf of an error status: the scan over the HAL is    *)
(* stopped and restarted over netlink with the settings kept.  If that      *)
(* fails the handler is told, null or not.                                  *)
OnOffloadError ==
    IF ~pno_scan_running_over_offload
    THEN UNCHANGED <<managerVars, halVars, cached_scan_results, hal_deaths,
                     kernelVars, scannerVars, watched, crashed>>
    ELSE /\ StopPnoScanOffload
         /\ \E res \in {"ok", "error", "enodev"} :
               /\ StartPnoScanDefault(pno_settings, res)
               /\ watched' = IF res = "ok" THEN watched ELSE NoScan
               /\ crashed' = CASE res = "ok" -> "no"
                               [] res = "enodev" -> "check_enodev"
                               [] res = "error" -> IF pno_scan_event_handler
                                                   THEN "no"
                                                   ELSE "null_handler"
         /\ UNCHANGED <<pno_scan_results_from_offload, pno_settings,
                        pno_scan_event_handler, offload_scan_supported>>

(* Mutant: the status is stored and the scanner is not called back.         *)
ReportError_NoCallback(code) ==
    /\ offload_status' = IF code = "INVALID" THEN offload_status
                         ELSE StatusOf(code)
    /\ UNCHANGED <<managerVars, halVars, cached_scan_results, hal_deaths,
                   kernelVars, scannerVars, watched, crashed>>

(* ReportError: offload_status_ is assigned after the callback, so stopScan *)
(* still finds a usable HAL inside of it.                                   *)
ReportError(code) ==
    IF code = "INVALID"
    THEN UNCHANGED <<managerVars, halVars, offload_status,
                     cached_scan_results, hal_deaths, kernelVars, scannerVars,
                     watched, crashed>>
    ELSE /\ offload_status' = StatusOf(code)
         /\ IF code = "OK"
            THEN UNCHANGED <<managerVars, halVars, cached_scan_results,
                             hal_deaths, kernelVars, scannerVars, watched,
                             crashed>>
            ELSE OnOffloadError

(* ReportScanResults and OnOffloadScanResult: results are cached even when  *)
(* the scanner then ignores them.                                           *)
ReportScanResults ==
    /\ cached_scan_results' = TRUE
    /\ pno_scan_results_from_offload' =
          (pno_scan_results_from_offload \/ pno_scan_running_over_offload)
    /\ UNCHANGED <<managerVars, halVars, offload_status, hal_deaths,
                   kernelVars, pno_scan_started, pno_scan_running_over_offload,
                   pno_settings, pno_scan_event_handler,
                   offload_scan_supported, watched, crashed>>

(* The event loop takes the next callback of the HAL off hwbinder.          *)
DispatchHalEvent ==
    /\ Alive
    /\ hal_events # <<>>
    /\ hal_events' = Tail(hal_events)
    /\ IF Head(hal_events) = "scan_result"
       THEN ReportScanResults
       ELSE ReportError(Head(hal_events))

(* OnObjectDeath clears the proxy, calls OnOffloadError, and only then      *)
(* marks the service unavailable.  While a scan runs over the HAL the       *)
(* service is available and its status kNoError (ScanOverOffloadIsUsable),  *)
(* so the stopScan inside of OnOffloadError always meets the null proxy.    *)
OnObjectDeath(cookie) ==
    /\ hal_deaths' = hal_deaths \ {cookie}
    /\ IF wifi_offload_hal # cookie
       THEN UNCHANGED <<managerVars, watched, crashed>>
       ELSE /\ wifi_offload_hal' = NullHal
            /\ IF pno_scan_running_over_offload /\ StopScanDerefsNull(NullHal)
               THEN /\ crashed' = "null_hal"
                    /\ watched' = NoScan
                    /\ UNCHANGED <<service_available, hal_linked, hal_callback>>
               ELSE /\ service_available' = FALSE
                    /\ hal_linked' = FALSE
                    /\ UNCHANGED <<hal_callback, watched, crashed>>
    /\ UNCHANGED <<halVars, offload_status, cached_scan_results, hal_events,
                   kernelVars, scannerVars>>

---------------------------------------------------------------------------
Framework ==
    \/ \E s \in Settings : startPnoScan(s)
    \/ \E ok \in BOOLEAN : stopPnoScan(ok)
    \/ subscribePnoScanEvents
    \/ unsubscribePnoScanEvents

(* The event loop takes a death notification off hwbinder.                  *)
DispatchDeath == \E cookie \in hal_deaths : Alive /\ OnObjectDeath(cookie)

EventLoop == DispatchKernelEvent \/ DispatchHalEvent \/ DispatchDeath

HalSide(Step) ==
    /\ Alive
    /\ Step
    /\ UNCHANGED <<kernelVars, scannerVars, watched, crashed>>

KernelSide(Step) ==
    /\ Alive
    /\ Step
    /\ UNCHANGED <<offloadVars, scannerVars, watched, crashed>>

Environment ==
    \/ HalSide(HalStarts)
    \/ HalSide(HalDies)
    \/ \E e \in HalEvent : HalSide(HalReports(e))
    \/ KernelSide(KernelFindsNetwork)
    \/ KernelSide(KernelStopsScan)

Next == Framework \/ EventLoop \/ Environment

Spec == Init /\ [][Next]_vars

(* The looper polls every descriptor it watches and runs the callback of    *)
(* each one that is readable: a message that waits is dispatched.           *)
Fairness ==
    /\ WF_vars(DispatchKernelEvent)
    /\ WF_vars(DispatchHalEvent)
    /\ WF_vars(DispatchDeath)

FairSpec == Spec /\ Fairness

---------------------------------------------------------------------------
(* Some backend really scans for request s.                                 *)
Served(s) == hal_plan = s \/ kernel_plan = s

(* The scan has been lost and a message that will tell the scanner so is    *)
(* waiting: an error or the death of the HAL while it is believed to scan,  *)
(* a stop from the kernel while that is.                                    *)
Error == {"TIMEOUT", "NO_CONNECTION", "ERROR"}

Queued(q, S) == \E i \in DOMAIN q : q[i] \in S

LossPending ==
    \/ /\ pno_scan_running_over_offload
       /\ wifi_offload_hal \in hal_deaths \/ Queued(hal_events, Error)
    \/ /\ pno_scan_started
       /\ Queued(kernel_events, {"stopped", "stop_echo"})

(* The inductive invariant of the proofs.  HalHeld: the proxy of an         *)
(* available service is linked, and the instance behind it runs or its      *)
(* death is about to be notified.                                           *)
HalHeld ==
    service_available /\ crashed # "null_hal" =>
        /\ wifi_offload_hal # NullHal
        /\ hal_linked
        /\ wifi_offload_hal = hal_service \/ wifi_offload_hal \in hal_deaths

OffloadRunUsable ==
    pno_scan_running_over_offload =>
        /\ offload_scan_supported
        /\ service_available
        /\ offload_status = "kNoError"

WatcherIsHeard ==
    watched # NoScan =>
        /\ pno_scan_event_handler
        /\ pno_scan_running_over_offload => pno_settings = watched

WatchedOverOffload ==
    /\ pno_scan_running_over_offload
    /\ \/ hal_plan = watched
       \/ wifi_offload_hal \in hal_deaths
       \/ Queued(hal_events, Error)

WatchedOverNetlink ==
    /\ pno_scan_started
    /\ \/ kernel_plan = watched
       \/ Queued(kernel_events, {"stopped", "stop_echo"})

WatchIsKept ==
    watched # NoScan => WatchedOverOffload \/ WatchedOverNetlink

IInv == TypeOK /\ HalHeld /\ OffloadRunUsable /\ WatcherIsHeard /\ WatchIsKept

(* A scan the framework was told is running, and which it listens to, is    *)
(* being run with the settings asked for, by the HAL or by the kernel, or   *)
(* news of its loss is on its way to the handler that will repair or report *)
(* it: startPnoScan, stopPnoScan, OnSchedScanResultsReady, OnOffloadError   *)
(* and OnObjectDeath never leave the framework watching nothing.            *)
NoSilentLoss == watched # NoScan => Served(watched) \/ LossPending

(* While ScannerImpl believes a scan runs over the HAL, OffloadScanManager  *)
(* holds a proxy it considers usable, so that stopPnoScan and the fallback  *)
(* really send unsubscribeScanResults instead of giving up with             *)
(* kNotAvailable.                                                           *)
ScanOverOffloadIsUsable ==
    pno_scan_running_over_offload =>
        /\ service_available
        /\ offload_status = "kNoError"
        /\ wifi_offload_hal # NullHal \/ crashed = "null_hal"

(* If calls on a live HAL do not fail, the HAL scans for wificond only      *)
(* while ScannerImpl knows: fallback, stop and restart leave no HAL         *)
(* subscription behind.                                                     *)
NoOrphanHalScan == hal_plan # NoScan => pno_scan_running_over_offload

(* A lost scan does not stay lost: the framework is told, or stops it, or   *)
(* some backend scans for it again.                                         *)
LossIsNoticed ==
    \A s \in Settings :
        (watched = s /\ ~Served(s)) ~> (watched # s \/ Served(s))

---------------------------------------------------------------------------
(* What comments and interface documentation say, and the code does not do. *)

(* scanner_impl.cpp:516 "Stop scans over Offload HAL and request them over  *)
(* netlink": the death of the HAL under a PNO scan is survived.             *)
HalDeathIsSurvived == crashed # "null_hal"
=============================================================================
