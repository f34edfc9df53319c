-------------------------- MODULE PnoScannerProofs --------------------------
(***************************************************************************)
(* For every set of settings, every number of HAL restarts, every bound on  *)
(* the queues and every fault allowed by the constants: PnoScanner is type  *)
(* correct, a scan believed to run over the HAL has a usable proxy, and no  *)
(* scan the framework watches is lost silently.  If calls on a live HAL do  *)
(* not fail, no scan is left behind there either.                           *)
(***************************************************************************)
EXTENDS PnoScanner, TLAPS

(* An event appended to a queue is queued in it, as are those before it.    *)
LEMMA QueuedAppend ==
    ASSUME NEW T, NEW q \in Seq(T), NEW e \in T, NEW S
    PROVE  Queued(Append(q, e), S) <=> Queued(q, S) \/ e \in S
<1>1. /\ DOMAIN Append(q, e) = 1..(Len(q) + 1)
      /\ DOMAIN q = 1..Len(q)
      /\ Append(q, e)[Len(q) + 1] = e
      /\ \A i \in 1..Len(q) : Append(q, e)[i] = q[i]
      /\ Len(q) \in Nat
  OBVIOUS
<1>2. ASSUME Queued(Append(q, e), S) PROVE Queued(q, S) \/ e \in S
  BY <1>1, <1>2 DEF Queued
<1>3. ASSUME Queued(q, S) PROVE Queued(Append(q, e), S)
  BY <1>1, <1>3 DEF Queued
<1>4. ASSUME e \in S PROVE Queued(Append(q, e), S)
  <2>1. Len(q) + 1 \in DOMAIN Append(q, e) BY <1>1
  <2>2. QED BY <1>1, <1>4, <2>1 DEF Queued
<1>5. QED BY <1>2, <1>3, <1>4

(* Taking an event off a queue keeps the events of another kind queued.     *)
LEMMA QueuedTail ==
    ASSUME NEW T, NEW q \in Seq(T), q # <<>>, NEW S,
           Queued(q, S), Head(q) \notin S
    PROVE  Queued(Tail(q), S)
<1>1. /\ Len(Tail(q)) = Len(q) - 1
      /\ DOMAIN Tail(q) = 1..(Len(q) - 1)
      /\ DOMAIN q = 1..Len(q)
      /\ Head(q) = q[1]
      /\ \A i \in 1..(Len(q) - 1) : Tail(q)[i] = q[i + 1]
      /\ Len(q) \in Nat \ {0}
  OBVIOUS
<1>2. PICK i \in 1..Len(q) : q[i] \in S
  BY <1>1 DEF Queued
<1>3. i # 1
  BY <1>1, <1>2
<1>4. i - 1 \in 1..(Len(q) - 1) /\ Tail(q)[i - 1] = q[i]
  BY <1>1, <1>2, <1>3
<1>5. QED BY <1>1, <1>2, <1>4 DEF Queued

LEMMA InitIInv == Init => IInv
<1> SUFFICES ASSUME Init PROVE IInv
  OBVIOUS
<1> USE DEF Init, OffloadInit, KernelInit
<1>1. TypeOK
  <2>1. /\ wifi_offload_hal \in 0..MaxHal
        /\ hal_service \in 0..MaxHal
        /\ hal_count \in 0..MaxHal
    BY OffloadAssumption DEF NullHal
  <2>2. /\ service_available \in BOOLEAN
        /\ hal_linked \in BOOLEAN
        /\ hal_callback \in BOOLEAN
        /\ offload_status \in StatusCode
    BY DEF StatusCode
  <2>3. hal_events \in Seq(HalEvent) /\ kernel_events \in Seq(KernelEvent)
    OBVIOUS
  <2>4. OffloadTypeOK
    BY <2>1, <2>2, <2>3 DEF OffloadTypeOK, Plan
  <2>5. QED BY <2>3, <2>4 DEF TypeOK, KernelTypeOK, Plan, Crash
<1>2. HalHeld
  BY DEF HalHeld, NullHal
<1>3. OffloadRunUsable /\ WatcherIsHeard /\ WatchIsKept
  BY DEF OffloadRunUsable, WatcherIsHeard, WatchIsKept
<1>4. QED BY <1>1, <1>2, <1>3 DEF IInv

---------------------------------------------------------------------------
(* What the two calls into OffloadScanManager keep.                         *)

(* Every outcome of InitServiceIfNeeded is well typed, and a successful one *)
(* holds a linked proxy of an instance that runs or whose death is pending. *)
LEMMA InitOutcomes ==
    ASSUME OffloadTypeOK, HalHeld, crashed # "null_hal",
           NEW init \in InitServiceIfNeeded(wifi_offload_hal)
    PROVE  /\ init.hal \in 0..MaxHal
           /\ init.ok \in BOOLEAN /\ init.linked \in BOOLEAN
           /\ init.callback \in BOOLEAN
           /\ init.ok => /\ init.hal # NullHal
                         /\ init.linked
                         /\ init.hal = hal_service \/ init.hal \in hal_deaths
<1>1. CASE service_available
  <2>1. init = InitOutcome(TRUE, wifi_offload_hal, hal_linked, hal_callback)
    BY <1>1 DEF InitServiceIfNeeded
  <2>2. /\ init.ok /\ init.hal = wifi_offload_hal
        /\ init.linked = hal_linked /\ init.callback = hal_callback
    BY <2>1 DEF InitOutcome
  <2>3. QED BY <1>1, <2>2 DEF OffloadTypeOK, HalHeld
<1>2. CASE ~service_available
  <2>1. \/ init = InitOutcome(FALSE, NullHal, FALSE, hal_callback)
        \/ init = InitOutcome(FALSE, hal_service, FALSE, hal_callback)
        \/ init = InitOutcome(FALSE, hal_service, TRUE, hal_callback)
        \/ /\ hal_service # NullHal
           /\ init = InitOutcome(TRUE, hal_service, TRUE, TRUE)
    BY <1>2 DEF InitServiceIfNeeded, InitService
  <2>2. NullHal \in 0..MaxHal /\ hal_service \in 0..MaxHal
        /\ hal_callback \in BOOLEAN
    BY OffloadAssumption DEF NullHal, OffloadTypeOK
  <2>3. CASE init = InitOutcome(FALSE, NullHal, FALSE, hal_callback)
    <3>1. /\ init.ok = FALSE /\ init.hal = NullHal
          /\ init.linked = FALSE /\ init.callback = hal_callback
      BY <2>3 DEF InitOutcome
    <3>2. QED BY <2>2, <3>1
  <2>4. CASE init = InitOutcome(FALSE, hal_service, FALSE, hal_callback)
    <3>1. /\ init.ok = FALSE /\ init.hal = hal_service
          /\ init.linked = FALSE /\ init.callback = hal_callback
      BY <2>4 DEF InitOutcome
    <3>2. QED BY <2>2, <3>1
  <2>5. CASE init = InitOutcome(FALSE, hal_service, TRUE, hal_callback)
    <3>1. /\ init.ok = FALSE /\ init.hal = hal_service
          /\ init.linked = TRUE /\ init.callback = hal_callback
      BY <2>5 DEF InitOutcome
    <3>2. QED BY <2>2, <3>1
  <2>6. CASE /\ hal_service # NullHal
             /\ init = InitOutcome(TRUE, hal_service, TRUE, TRUE)
    <3>1. /\ init.ok = TRUE /\ init.hal = hal_service
          /\ init.linked = TRUE /\ init.callback = TRUE
      BY <2>6 DEF InitOutcome
    <3>2. QED BY <2>2, <2>6, <3>1
  <2>7. QED BY <2>1, <2>3, <2>4, <2>5, <2>6
<1>3. QED BY <1>1, <1>2 DEF OffloadTypeOK

(* startScan: true means that the HAL behind the proxy held scans for s and *)
(* that service and status are in order.                                    *)
LEMMA StartScanKeeps ==
    ASSUME OffloadTypeOK, HalHeld, Alive, NEW s \in Settings,
           NEW ok \in BOOLEAN, startScan(s, ok), crashed' # "null_hal"
    PROVE  /\ OffloadTypeOK' /\ HalHeld'
           /\ ok => hal_plan' = s /\ service_available'
                    /\ offload_status' = "kNoError"
<1>1. PICK init \in InitServiceIfNeeded(wifi_offload_hal) :
         /\ Initialised(init)
         /\ IF Usable(init) THEN HalStart(init.hal, s, ok)
                            ELSE ~ok /\ UNCHANGED hal_plan
  BY DEF startScan
<1>2. UNCHANGED <<hal_service, hal_count, offload_status,
                  cached_scan_results, hal_events, hal_deaths>>
  BY DEF startScan
<1>3. hal_plan' \in Plan
  BY <1>1 DEF HalStart, OffloadTypeOK, Plan
<1>4. /\ init.hal \in 0..MaxHal
      /\ init.ok \in BOOLEAN /\ init.linked \in BOOLEAN
      /\ init.callback \in BOOLEAN
      /\ init.ok => /\ init.hal # NullHal
                    /\ init.linked
                    /\ init.hal = hal_service \/ init.hal \in hal_deaths
  BY InitOutcomes DEF Alive
<1>5. OffloadTypeOK'
  BY <1>1, <1>2, <1>3, <1>4 DEF Initialised, OffloadTypeOK
<1>6. HalHeld'
  BY <1>1, <1>2, <1>4 DEF Initialised, HalHeld
<1>7. ok => hal_plan' = s /\ service_available' /\ offload_status' = "kNoError"
  BY <1>1, <1>2 DEF Initialised, Usable, HalStart
<1>8. QED BY <1>5, <1>6, <1>7

(* stopScan, where the proxy is usable: it keeps the manager's fields.      *)
LEMMA StopScanKeeps ==
    ASSUME OffloadTypeOK, service_available, NEW ok \in BOOLEAN, stopScan(ok)
    PROVE  /\ hal_plan' \in Plan
           /\ UNCHANGED <<managerVars, hal_service, hal_count,
                          cached_scan_results, hal_deaths>>
<1>1. PICK init \in InitServiceIfNeeded(wifi_offload_hal) :
         /\ Initialised(init)
         /\ IF Usable(init) THEN HalStop(init.hal, ok)
                            ELSE ~ok /\ UNCHANGED hal_plan
  BY DEF stopScan
<1>2. init = InitOutcome(TRUE, wifi_offload_hal, hal_linked, hal_callback)
  BY <1>1 DEF InitServiceIfNeeded
<1>3. hal_plan' \in Plan
  BY <1>1 DEF HalStop, OffloadTypeOK, Plan
<1>4. UNCHANGED managerVars
  BY <1>1, <1>2 DEF Initialised, managerVars, InitOutcome, OffloadTypeOK
<1>5. QED BY <1>3, <1>4 DEF stopScan
---------------------------------------------------------------------------
(* One lemma per handler: it keeps the inductive invariant.                 *)

(* The netlink start keeps the kernel well typed; "ok" means it now runs s. *)
LEMMA StartDefaultKeeps ==
    ASSUME KernelTypeOK, pno_scan_started \in BOOLEAN, NEW s \in Plan, NEW res,
           StartPnoScanDefault(s, res)
    PROVE  /\ KernelTypeOK'
           /\ pno_scan_started' \in BOOLEAN
           /\ res = "ok" => kernel_plan' = s /\ pno_scan_started'
           /\ UNCHANGED kernel_events
BY DEF StartPnoScanDefault, StartScheduledScan, KernelTypeOK

LEMMA StartPnoScanKeeps ==
    ASSUME IInv, NEW s \in Settings, startPnoScan(s)
    PROVE  IInv'
<1> USE DEF IInv, TypeOK
<1>1. /\ Alive
      /\ pno_settings' = s
      /\ pno_scan_results_from_offload' = FALSE
      /\ UNCHANGED <<pno_scan_event_handler, offload_scan_supported>>
  BY DEF startPnoScan
<1>2. CASE /\ StartPnoScanOffload(s, TRUE)
           /\ watched' = IF pno_scan_event_handler THEN s ELSE NoScan
           /\ UNCHANGED <<kernelVars, pno_scan_started, crashed>>
  <2>1. /\ OffloadTypeOK' /\ HalHeld' /\ hal_plan' = s
        /\ service_available' /\ offload_status' = "kNoError"
        /\ offload_scan_supported
    BY <1>1, <1>2, StartScanKeeps DEF StartPnoScanOffload, Alive
  <2>2. KernelTypeOK'
    BY <1>2 DEF KernelTypeOK, kernelVars
  <2>3. TypeOK'
    BY <1>1, <1>2, <2>1, <2>2 DEF StartPnoScanOffload, Plan
  <2>4. OffloadRunUsable'
    BY <1>1, <2>1 DEF OffloadRunUsable
  <2>5. WatcherIsHeard' /\ WatchIsKept'
    BY <1>1, <1>2, <2>1
       DEF WatcherIsHeard, WatchIsKept, WatchedOverOffload, StartPnoScanOffload
  <2>6. QED BY <2>1, <2>3, <2>4, <2>5
<1>3. CASE /\ \/ StartPnoScanOffload(s, FALSE)
              \/ /\ ~offload_scan_supported
                 /\ UNCHANGED <<offloadVars, pno_scan_running_over_offload>>
           /\ \E res \in {"ok", "error", "enodev"} :
                 /\ StartPnoScanDefault(s, res)
                 /\ watched' = IF res = "ok" /\ pno_scan_event_handler
                               THEN s ELSE NoScan
                 /\ crashed' = IF res = "enodev" THEN "check_enodev" ELSE "no"
  <2>1. PICK res \in {"ok", "error", "enodev"} :
           /\ StartPnoScanDefault(s, res)
           /\ watched' = IF res = "ok" /\ pno_scan_event_handler
                         THEN s ELSE NoScan
           /\ crashed' = IF res = "enodev" THEN "check_enodev" ELSE "no"
    BY <1>3
  <2>2. /\ KernelTypeOK' /\ pno_scan_started' \in BOOLEAN
        /\ res = "ok" => kernel_plan' = s /\ pno_scan_started'
    BY <2>1, StartDefaultKeeps DEF Plan
  <2>3. crashed' \in Crash /\ crashed' # "null_hal"
    BY <2>1 DEF Crash
  <2>4. /\ OffloadTypeOK' /\ HalHeld'
        /\ pno_scan_running_over_offload' = FALSE
    <3>1. CASE StartPnoScanOffload(s, FALSE)
      BY <1>1, <2>3, <3>1, StartScanKeeps DEF StartPnoScanOffload
    <3>2. CASE /\ ~offload_scan_supported
               /\ UNCHANGED <<offloadVars, pno_scan_running_over_offload>>
      BY <1>1, <2>3, <3>2
         DEF offloadVars, managerVars, halVars, OffloadTypeOK, HalHeld,
             OffloadRunUsable, Alive
    <3>3. QED BY <1>3, <3>1, <3>2
  <2>5. TypeOK'
    BY <1>1, <2>1, <2>2, <2>3, <2>4 DEF Plan
  <2>6. OffloadRunUsable'
    BY <2>4 DEF OffloadRunUsable
  <2>7. WatcherIsHeard' /\ WatchIsKept'
    BY <1>1, <2>1, <2>2, <2>4
       DEF WatcherIsHeard, WatchIsKept, WatchedOverNetlink
  <2>8. QED BY <2>4, <2>5, <2>6, <2>7
<1>4. QED BY <1>2, <1>3 DEF startPnoScan

(* Stopping over the HAL, from a state where a scan runs there.             *)
LEMMA StopOffloadKeeps ==
    ASSUME IInv, Alive, StopPnoScanOffload
    PROVE  /\ hal_plan' \in Plan
           /\ UNCHANGED <<managerVars, hal_service, hal_count,
                          cached_scan_results, hal_deaths>>
           /\ pno_scan_running_over_offload' = FALSE
BY StopScanKeeps DEF StopPnoScanOffload, IInv, TypeOK, OffloadRunUsable

LEMMA StopPnoScanKeeps ==
    ASSUME IInv, NEW ok \in BOOLEAN, stopPnoScan(ok)
    PROVE  IInv'
<1> USE DEF IInv, TypeOK
<1>1. /\ Alive
      /\ watched' = NoScan
      /\ UNCHANGED <<pno_scan_results_from_offload, pno_settings,
                     pno_scan_event_handler, offload_scan_supported,
                     crashed>>
  BY DEF stopPnoScan
<1>2. WatcherIsHeard' /\ WatchIsKept' /\ watched' \in Plan
  BY <1>1 DEF WatcherIsHeard, WatchIsKept, Plan
<1>3. CASE /\ StopPnoScanOffload
           /\ UNCHANGED <<kernelVars, offload_status, hal_events,
                          pno_scan_started>>
  <2>1. /\ hal_plan' \in Plan
        /\ UNCHANGED <<managerVars, hal_service, hal_count,
                       cached_scan_results, hal_deaths>>
        /\ pno_scan_running_over_offload' = FALSE
    BY <1>1, <1>3, StopOffloadKeeps
  <2>2. OffloadTypeOK' /\ HalHeld' /\ KernelTypeOK' /\ OffloadRunUsable'
    BY <1>1, <1>3, <2>1 DEF OffloadTypeOK, HalHeld, KernelTypeOK,
       OffloadRunUsable, managerVars, kernelVars
  <2>3. QED BY <1>1, <1>2, <1>3, <2>1, <2>2
<1>4. CASE /\ StopPnoScanDefault(ok)
           /\ UNCHANGED <<offloadVars, pno_scan_running_over_offload>>
  <2>1. KernelTypeOK' /\ pno_scan_started' \in BOOLEAN
    BY <1>4 DEF StopPnoScanDefault, StopScheduledScan, KernelTypeOK, kernelVars,
       Plan, KernelEvent
  <2>2. OffloadTypeOK' /\ HalHeld' /\ OffloadRunUsable'
    BY <1>1, <1>4 DEF OffloadTypeOK, HalHeld, OffloadRunUsable, offloadVars,
       managerVars, halVars
  <2>3. QED BY <1>1, <1>2, <1>4, <2>1, <2>2
<1>5. QED BY <1>3, <1>4 DEF stopPnoScan

LEMMA SubscriptionKeeps ==
    ASSUME IInv, subscribePnoScanEvents \/ unsubscribePnoScanEvents
    PROVE  IInv'
<1>1. /\ UNCHANGED <<offloadVars, kernelVars, pno_scan_started,
                     pno_scan_running_over_offload, pno_settings,
                     pno_scan_results_from_offload, offload_scan_supported, crashed>>
      /\ pno_scan_event_handler' \in BOOLEAN
      /\ \/ watched' = NoScan
         \/ watched' = watched /\ pno_scan_event_handler'
  BY DEF subscribePnoScanEvents, unsubscribePnoScanEvents
<1>2. TypeOK'
  BY <1>1 DEF IInv, TypeOK, OffloadTypeOK, KernelTypeOK, offloadVars,
     managerVars, halVars, kernelVars, Plan
<1>3. HalHeld' /\ OffloadRunUsable'
  BY <1>1 DEF IInv, HalHeld, OffloadRunUsable, offloadVars, managerVars,
     halVars
<1>4. WatcherIsHeard' /\ WatchIsKept'
  BY <1>1 DEF IInv, WatcherIsHeard, WatchIsKept, WatchedOverOffload,
     WatchedOverNetlink, Queued, offloadVars, managerVars, halVars, kernelVars
<1>5. QED BY <1>2, <1>3, <1>4 DEF IInv

LEMMA DispatchKernelEventKeeps ==
    ASSUME IInv, DispatchKernelEvent
    PROVE  IInv'
<1> USE DEF IInv, TypeOK
<1> DEFINE stops == {"stopped", "stop_echo"}
<1>1. /\ kernel_events # <<>>
      /\ kernel_events' = Tail(kernel_events)
      /\ OnSchedScanResultsReady(Head(kernel_events) # "results")
      /\ UNCHANGED <<offloadVars, kernel_plan, pno_scan_running_over_offload,
                     pno_settings, pno_scan_event_handler,
                     offload_scan_supported, crashed>>
  BY DEF DispatchKernelEvent
<1>2. Head(kernel_events) \in KernelEvent /\ kernel_events' \in Seq(KernelEvent)
  BY <1>1 DEF KernelTypeOK
<1>3. /\ pno_scan_started' \in BOOLEAN
      /\ pno_scan_results_from_offload' \in BOOLEAN
      /\ watched' \in {watched, NoScan}
  BY <1>1 DEF OnSchedScanResultsReady
<1>4. OffloadTypeOK' /\ HalHeld' /\ OffloadRunUsable'
  BY <1>1 DEF OffloadTypeOK, HalHeld, OffloadRunUsable, offloadVars,
     managerVars, halVars
<1>5. TypeOK'
  BY <1>1, <1>2, <1>3, <1>4 DEF KernelTypeOK, Plan
<1>6. WatcherIsHeard'
  BY <1>1, <1>3 DEF WatcherIsHeard
<1>7. WatchIsKept'
  <2>1. SUFFICES ASSUME watched' # NoScan
                 PROVE  WatchedOverOffload' \/ WatchedOverNetlink'
    BY DEF WatchIsKept
  <2>2. watched' = watched /\ watched # NoScan /\ pno_scan_event_handler
    BY <1>3, <2>1 DEF WatcherIsHeard
  <2>3. CASE WatchedOverOffload
    BY <1>1, <2>2, <2>3 DEF WatchedOverOffload, offloadVars, managerVars,
       halVars, Queued
  <2>4. CASE WatchedOverNetlink
    <3>1. Head(kernel_events) \notin stops
      BY <1>1, <2>1, <2>2, <2>4 DEF OnSchedScanResultsReady, WatchedOverNetlink
    <3>2. pno_scan_started'
      BY <1>1, <1>2, <2>2, <2>4, <3>1
         DEF OnSchedScanResultsReady, WatchedOverNetlink, KernelEvent
    <3>3. Queued(kernel_events, stops) => Queued(kernel_events', stops)
      BY <1>1, <3>1, QueuedTail DEF KernelTypeOK
    <3>4. QED BY <1>1, <2>2, <2>4, <3>2, <3>3 DEF WatchedOverNetlink
  <2>5. QED BY <2>2, <2>3, <2>4 DEF WatchIsKept
<1>8. QED BY <1>4, <1>5, <1>6, <1>7

(* An asynchronous error: if a scan ran over the HAL it now runs over       *)
(* netlink with the settings kept, or the framework has been told.          *)
LEMMA ErrorKeeps ==
    ASSUME IInv, Alive, NEW code \in Error, ReportError(code),
           hal_events # <<>>, hal_events' = Tail(hal_events)
    PROVE  IInv'
<1> USE DEF IInv, TypeOK
<1>1. /\ offload_status' \in StatusCode
      /\ OnOffloadError
  BY DEF ReportError, Error, StatusOf, StatusCode
<1>2. hal_events' \in Seq(HalEvent)
  BY DEF OffloadTypeOK
<1>3. CASE ~pno_scan_running_over_offload
  <2>1. UNCHANGED <<managerVars, halVars, cached_scan_results, hal_deaths,
                    kernelVars, scannerVars, watched, crashed>>
    BY <1>1, <1>3 DEF OnOffloadError
  <2>2. OffloadTypeOK' /\ HalHeld' /\ KernelTypeOK'
    BY <1>1, <1>2, <2>1 DEF OffloadTypeOK, HalHeld, KernelTypeOK, managerVars,
       halVars, kernelVars
  <2>3. TypeOK' /\ OffloadRunUsable'
    BY <1>1, <1>3, <2>1, <2>2 DEF OffloadRunUsable, scannerVars
  <2>4. WatcherIsHeard' /\ WatchIsKept'
    BY <1>3, <2>1 DEF WatcherIsHeard, WatchIsKept, WatchedOverOffload,
       WatchedOverNetlink, scannerVars, kernelVars
  <2>5. QED BY <2>2, <2>3, <2>4
<1>4. CASE pno_scan_running_over_offload
  <2>1. /\ StopPnoScanOffload
        /\ UNCHANGED <<pno_scan_results_from_offload, pno_settings,
                       pno_scan_event_handler, offload_scan_supported>>
    BY <1>1, <1>4 DEF OnOffloadError
  <2>2. PICK res \in {"ok", "error", "enodev"} :
           /\ StartPnoScanDefault(pno_settings, res)
           /\ watched' = IF res = "ok" THEN watched ELSE NoScan
           /\ crashed' = CASE res = "ok" -> "no"
                           [] res = "enodev" -> "check_enodev"
                           [] res = "error" -> IF pno_scan_event_handler
                                               THEN "no" ELSE "null_handler"
    BY <1>1, <1>4 DEF OnOffloadError
  <2>3. /\ hal_plan' \in Plan
        /\ UNCHANGED <<managerVars, hal_service, hal_count,
                       cached_scan_results, hal_deaths>>
        /\ pno_scan_running_over_offload' = FALSE
    BY <2>1, StopOffloadKeeps
  <2>4. /\ KernelTypeOK' /\ pno_scan_started' \in BOOLEAN
        /\ res = "ok" => kernel_plan' = pno_settings /\ pno_scan_started'
    BY <2>2, StartDefaultKeeps
  <2>5. crashed' \in Crash
    BY <2>2 DEF Crash
  <2>6. OffloadTypeOK' /\ HalHeld' /\ OffloadRunUsable'
    BY <1>1, <1>2, <2>3 DEF OffloadTypeOK, HalHeld, OffloadRunUsable,
       managerVars, Alive
  <2>7. TypeOK'
    BY <1>1, <2>1, <2>2, <2>3, <2>4, <2>5, <2>6 DEF Plan
  <2>8. WatcherIsHeard' /\ WatchIsKept'
    BY <1>4, <2>1, <2>2, <2>3, <2>4
       DEF WatcherIsHeard, WatchIsKept, WatchedOverNetlink
  <2>9. QED BY <2>6, <2>7, <2>8
<1>5. QED BY <1>3, <1>4

LEMMA DispatchHalEventKeeps ==
    ASSUME IInv, DispatchHalEvent
    PROVE  IInv'
<1> USE DEF IInv, TypeOK
<1>1. /\ Alive
      /\ hal_events # <<>>
      /\ hal_events' = Tail(hal_events)
      /\ Head(hal_events) \in HalEvent
      /\ hal_events' \in Seq(HalEvent)
  BY DEF DispatchHalEvent, OffloadTypeOK
<1>2. CASE Head(hal_events) \in Error
  BY <1>1, <1>2, ErrorKeeps DEF DispatchHalEvent, Error
<1>3. CASE Head(hal_events) \notin Error
  <2>1. /\ UNCHANGED <<managerVars, halVars, hal_deaths, kernelVars,
                       pno_scan_started, pno_scan_running_over_offload,
                       pno_settings, pno_scan_event_handler,
                       offload_scan_supported, watched, crashed>>
        /\ cached_scan_results' \in BOOLEAN
        /\ pno_scan_results_from_offload' \in BOOLEAN
        /\ offload_status' \in {offload_status, "kNoError"}
    <3>1. CASE Head(hal_events) = "scan_result"
      BY <1>1, <3>1 DEF DispatchHalEvent, ReportScanResults, OffloadTypeOK
    <3>2. CASE Head(hal_events) \in {"OK", "INVALID"}
      BY <1>1, <3>2 DEF DispatchHalEvent, ReportError, StatusOf, scannerVars,
         OffloadTypeOK
    <3>3. QED BY <1>1, <1>3, <3>1, <3>2 DEF HalEvent, ErrorCode, Error
  <2>2. OffloadTypeOK' /\ HalHeld' /\ OffloadRunUsable' /\ KernelTypeOK'
    BY <1>1, <2>1 DEF OffloadTypeOK, HalHeld, OffloadRunUsable, KernelTypeOK,
       managerVars, halVars, kernelVars, StatusCode
  <2>3. TypeOK' /\ WatcherIsHeard'
    BY <2>1, <2>2 DEF WatcherIsHeard
  <2>4. Queued(hal_events, Error) => Queued(hal_events', Error)
    BY <1>1, <1>3, QueuedTail DEF OffloadTypeOK
  <2>5. WatchIsKept'
    BY <2>1, <2>4 DEF WatchIsKept, WatchedOverOffload, WatchedOverNetlink,
       managerVars, halVars, kernelVars, Queued
  <2>6. QED BY <2>2, <2>3, <2>5
<1>4. QED BY <1>2, <1>3

LEMMA DispatchDeathKeeps ==
    ASSUME IInv, DispatchDeath
    PROVE  IInv'
<1> USE DEF IInv, TypeOK
<1>1. PICK cookie \in hal_deaths : Alive /\ OnObjectDeath(cookie)
  BY DEF DispatchDeath
<1>2. /\ hal_deaths' = hal_deaths \ {cookie}
      /\ cookie # NullHal
      /\ UNCHANGED <<halVars, offload_status, cached_scan_results, hal_events,
                     kernelVars, scannerVars>>
  BY <1>1 DEF OnObjectDeath, OffloadTypeOK, NullHal
<1>3. KernelTypeOK' /\ scannerVars' = scannerVars
  BY <1>2 DEF KernelTypeOK, kernelVars
<1>4. CASE wifi_offload_hal # cookie
  <2>1. UNCHANGED <<managerVars, watched, crashed>>
    BY <1>1, <1>4 DEF OnObjectDeath
  <2>2. OffloadTypeOK' /\ HalHeld' /\ OffloadRunUsable'
    BY <1>2, <1>4, <2>1 DEF OffloadTypeOK, HalHeld, OffloadRunUsable,
       managerVars, halVars, scannerVars
  <2>3. TypeOK' /\ WatcherIsHeard'
    BY <1>2, <1>3, <2>1, <2>2 DEF WatcherIsHeard, scannerVars
  <2>4. WatchIsKept'
    BY <1>2, <1>4, <2>1 DEF WatchIsKept, WatchedOverOffload, Queued,
       WatchedOverNetlink, managerVars, halVars, scannerVars, kernelVars
  <2>5. QED BY <2>2, <2>3, <2>4
<1>5. CASE wifi_offload_hal = cookie /\ pno_scan_running_over_offload
  <2>1. StopScanDerefsNull(NullHal)
    BY <1>5 DEF OffloadRunUsable, StopScanDerefsNull
  <2>2. /\ wifi_offload_hal' = NullHal
        /\ crashed' = "null_hal"
        /\ watched' = NoScan
        /\ UNCHANGED <<service_available, hal_linked, hal_callback>>
    BY <1>1, <1>5, <2>1 DEF OnObjectDeath
  <2>3. OffloadTypeOK' /\ HalHeld' /\ OffloadRunUsable'
    BY <1>2, <2>2, OffloadAssumption DEF OffloadTypeOK, HalHeld,
       OffloadRunUsable, halVars, scannerVars, NullHal
  <2>4. TypeOK' /\ WatcherIsHeard' /\ WatchIsKept'
    BY <1>2, <1>3, <2>2, <2>3 DEF WatcherIsHeard, WatchIsKept, scannerVars,
       Plan, Crash
  <2>5. QED BY <2>3, <2>4
<1>6. CASE wifi_offload_hal = cookie /\ ~pno_scan_running_over_offload
  <2>1. /\ wifi_offload_hal' = NullHal
        /\ service_available' = FALSE
        /\ hal_linked' = FALSE
        /\ UNCHANGED <<hal_callback, watched, crashed>>
    BY <1>1, <1>6 DEF OnObjectDeath
  <2>2. OffloadTypeOK' /\ HalHeld' /\ OffloadRunUsable'
    <3>1. OffloadTypeOK'
      <4>1. NullHal \in 0..MaxHal
        BY OffloadAssumption DEF NullHal
      <4>2. QED BY <1>2, <2>1, <4>1 DEF OffloadTypeOK, halVars
    <3>2. HalHeld' /\ OffloadRunUsable'
      BY <1>2, <1>6, <2>1 DEF HalHeld, OffloadRunUsable, scannerVars
    <3>3. QED BY <3>1, <3>2
  <2>3. TypeOK' /\ WatcherIsHeard'
    BY <1>2, <1>3, <2>1, <2>2 DEF WatcherIsHeard, scannerVars
  <2>4. WatchIsKept'
    BY <1>2, <1>6, <2>1 DEF WatchIsKept, WatchedOverOffload, Queued,
       WatchedOverNetlink, scannerVars, kernelVars
  <2>5. QED BY <2>2, <2>3, <2>4
<1>7. QED BY <1>4, <1>5, <1>6

(* Nothing the HAL process does breaks the invariant: its death is pending  *)
(* for the proxy held, and a scan is given up only with an error queued.    *)
LEMMA HalSideKeeps ==
    ASSUME IInv,
           \/ HalSide(HalStarts)
           \/ HalSide(HalDies)
           \/ \E e \in HalEvent : HalSide(HalReports(e))
    PROVE  IInv'
<1> USE DEF IInv, TypeOK
<1>1. /\ Alive
      /\ HalStarts \/ HalDies \/ \E e \in HalEvent : HalReports(e)
      /\ UNCHANGED <<kernelVars, scannerVars, watched, crashed>>
  BY DEF HalSide
<1>2. /\ OffloadTypeOK' /\ HalHeld' /\ OffloadRunUsable'
      /\ WatchedOverOffload /\ watched # NoScan => WatchedOverOffload'
  <2>1. CASE HalStarts
    <3>1. hal_count + 1 \in 0..MaxHal
      BY <2>1, OffloadAssumption DEF HalStarts, OffloadTypeOK
    <3>2. OffloadTypeOK' /\ HalHeld'
      BY <1>1, <2>1, <3>1 DEF HalStarts, OffloadTypeOK, HalHeld, managerVars
    <3>3. OffloadRunUsable'
      BY <1>1, <2>1 DEF HalStarts, OffloadRunUsable, managerVars, scannerVars
    <3>4. WatchedOverOffload => WatchedOverOffload'
      BY <1>1, <2>1 DEF HalStarts, WatchedOverOffload, managerVars, Queued,
         scannerVars
    <3>5. QED BY <3>2, <3>3, <3>4
  <2>2. CASE HalDies
    <3>1. OffloadTypeOK'
      <4>1. NullHal \in 0..MaxHal
        BY OffloadAssumption DEF NullHal
      <4>2. hal_deaths' \in SUBSET (1..MaxHal)
        BY <2>2 DEF HalDies, OffloadTypeOK, NullHal
      <4>3. QED BY <2>2, <4>1, <4>2 DEF HalDies, OffloadTypeOK, Plan
    <3>2. HalHeld' /\ OffloadRunUsable'
      BY <1>1, <2>2 DEF HalDies, HalHeld, OffloadRunUsable, scannerVars
    <3>3. pno_scan_running_over_offload => wifi_offload_hal' \in hal_deaths'
      BY <1>1, <2>2 DEF HalDies, HalHeld, OffloadRunUsable, Alive
    <3>4. WatchedOverOffload => WatchedOverOffload'
      BY <1>1, <3>3 DEF WatchedOverOffload, scannerVars
    <3>5. QED BY <3>1, <3>2, <3>4
  <2>3. ASSUME NEW e \in HalEvent, HalReports(e)
        PROVE  /\ OffloadTypeOK' /\ HalHeld' /\ OffloadRunUsable'
               /\ WatchedOverOffload /\ watched # NoScan => WatchedOverOffload'
    <3>1. /\ hal_events' = Append(hal_events, e)
          /\ hal_plan' \in {hal_plan, NoScan}
          /\ hal_plan' = hal_plan \/ e \in Error
          /\ UNCHANGED <<managerVars, hal_service, hal_count, offload_status,
                         cached_scan_results, hal_deaths>>
      BY <2>3 DEF HalReports, Error
    <3>2. OffloadTypeOK'
      BY <3>1 DEF OffloadTypeOK, managerVars, Plan
    <3>3. HalHeld' /\ OffloadRunUsable'
      BY <1>1, <3>1 DEF HalHeld, OffloadRunUsable, managerVars, scannerVars
    <3>4. Queued(hal_events', Error) <=> Queued(hal_events, Error) \/ e \in Error
      BY <3>1, QueuedAppend DEF OffloadTypeOK
    <3>5. WatchedOverOffload => WatchedOverOffload'
      BY <1>1, <3>1, <3>4 DEF WatchedOverOffload, managerVars, scannerVars
    <3>6. QED BY <3>2, <3>3, <3>5
  <2>4. QED BY <1>1, <2>1, <2>2, <2>3
<1>3. KernelTypeOK' /\ WatcherIsHeard'
  BY <1>1 DEF KernelTypeOK, WatcherIsHeard, kernelVars, scannerVars
<1>4. TypeOK'
  BY <1>1, <1>2, <1>3 DEF scannerVars
<1>5. WatchedOverNetlink => WatchedOverNetlink'
  BY <1>1 DEF WatchedOverNetlink, Queued, kernelVars, scannerVars
<1>6. WatchIsKept'
  BY <1>1, <1>2, <1>5 DEF WatchIsKept
<1>7. QED BY <1>2, <1>3, <1>4, <1>6

(* Nor does the driver: a scan it ends leaves a stop event in the queue.    *)
LEMMA KernelSideKeeps ==
    ASSUME IInv, KernelSide(KernelFindsNetwork) \/ KernelSide(KernelStopsScan)
    PROVE  IInv'
<1> USE DEF IInv, TypeOK
<1> DEFINE stops == {"stopped", "stop_echo"}
<1>1. PICK e \in KernelEvent :
         /\ kernel_events' = Append(kernel_events, e)
         /\ \/ kernel_plan' = kernel_plan
            \/ e \in stops
         /\ UNCHANGED <<offloadVars, scannerVars, watched, crashed>>
  BY DEF KernelSide, KernelFindsNetwork, KernelStopsScan, KernelEvent
<1>2. KernelTypeOK'
  BY <1>1 DEF KernelTypeOK, Plan, KernelSide, KernelFindsNetwork,
     KernelStopsScan
<1>3. OffloadTypeOK' /\ HalHeld' /\ OffloadRunUsable'
  BY <1>1 DEF OffloadTypeOK, HalHeld, OffloadRunUsable, offloadVars,
     managerVars, halVars, scannerVars
<1>4. TypeOK' /\ WatcherIsHeard'
  BY <1>1, <1>2, <1>3 DEF WatcherIsHeard, scannerVars
<1>5. Queued(kernel_events', stops) <=> Queued(kernel_events, stops) \/ e \in stops
  BY <1>1, QueuedAppend DEF KernelTypeOK
<1>6. WatchedOverOffload => WatchedOverOffload'
  BY <1>1 DEF WatchedOverOffload, Queued, offloadVars, managerVars, halVars,
     scannerVars
<1>7. WatchedOverNetlink => WatchedOverNetlink'
  BY <1>1, <1>5 DEF WatchedOverNetlink, scannerVars
<1>8. WatchIsKept'
  BY <1>1, <1>6, <1>7 DEF WatchIsKept
<1>9. QED BY <1>3, <1>4, <1>8

LEMMA NextKeepsIInv == IInv /\ [Next]_vars => IInv'
<1> SUFFICES ASSUME IInv, [Next]_vars PROVE IInv'
  OBVIOUS
<1>1. CASE Framework
  BY <1>1, StartPnoScanKeeps, StopPnoScanKeeps, SubscriptionKeeps DEF Framework
<1>2. CASE EventLoop
  BY <1>2, DispatchKernelEventKeeps, DispatchHalEventKeeps, DispatchDeathKeeps
     DEF EventLoop
<1>3. CASE Environment
  BY <1>3, HalSideKeeps, KernelSideKeeps DEF Environment
<1>4. CASE UNCHANGED vars
  BY <1>4 DEF vars, offloadVars, managerVars, halVars, kernelVars, scannerVars,
     IInv, TypeOK, OffloadTypeOK, KernelTypeOK, HalHeld, OffloadRunUsable,
     WatcherIsHeard, WatchIsKept, WatchedOverOffload, WatchedOverNetlink, Queued
<1>5. QED BY <1>1, <1>2, <1>3, <1>4 DEF Next

(* The inductive invariant holds in every reachable state.                  *)
THEOREM InductiveInvariant == Spec => []IInv
<1>1. Init => IInv BY InitIInv
<1>2. IInv /\ [Next]_vars => IInv' BY NextKeepsIInv
<1>3. QED BY <1>1, <1>2, PTL DEF Spec

(* Every variable keeps its type, whatever the order of calls and events.   *)
THEOREM TypeCorrect == Spec => []TypeOK
<1>1. IInv => TypeOK BY DEF IInv
<1>2. QED BY <1>1, InductiveInvariant, PTL

(* A scan believed to run over the HAL has an available service, the status *)
(* kNoError and, unless the process died on it, a proxy that is not null.   *)
THEOREM OffloadScanUsable == Spec => []ScanOverOffloadIsUsable
<1>1. IInv => ScanOverOffloadIsUsable
  BY DEF IInv, HalHeld, OffloadRunUsable, ScanOverOffloadIsUsable
<1>2. QED BY <1>1, InductiveInvariant, PTL

(* No scan the framework watches is lost without a message on its way that  *)
(* repairs or reports it.                                                   *)
THEOREM WatchedScanNeverSilentlyLost == Spec => []NoSilentLoss
<1>1. IInv => NoSilentLoss
  BY DEF IInv, WatchIsKept, WatchedOverOffload, WatchedOverNetlink,
     NoSilentLoss, Served, LossPending
<1>2. QED BY <1>1, InductiveInvariant, PTL

---------------------------------------------------------------------------
(* No scan is left behind on the HAL.  The instance that scans is the one   *)
(* behind the proxy held, so that unsubscribeScanResults reaches it; this   *)
(* needs that instances are never mistaken for one another, in particular   *)
(* that no death waits to be notified for the instance that runs.           *)
HalNumbered ==
    /\ hal_service <= hal_count
    /\ hal_deaths \subseteq 1..hal_count
    /\ hal_service \notin hal_deaths

HalScanKnown ==
    hal_plan # NoScan =>
        /\ pno_scan_running_over_offload
        /\ Reaches(wifi_offload_hal)

OrphanInv == HalNumbered /\ HalScanKnown

(* A scan that runs over the HAL is really stopped by stopScan.             *)
LEMMA StopReachesHal ==
    ASSUME IInv, Alive, HalScanKnown, ~HalFaults, StopPnoScanOffload
    PROVE  hal_plan' = NoScan
<1>1. /\ service_available /\ offload_status = "kNoError"
  BY DEF StopPnoScanOffload, IInv, OffloadRunUsable
<1>2. PICK ok \in BOOLEAN : stopScan(ok)
  BY DEF StopPnoScanOffload
<1>3. PICK init \in InitServiceIfNeeded(wifi_offload_hal) :
         IF Usable(init) THEN HalStop(init.hal, ok)
                         ELSE ~ok /\ UNCHANGED hal_plan
  BY <1>2 DEF stopScan
<1>4. init.ok = TRUE /\ init.hal = wifi_offload_hal
  BY <1>1, <1>3 DEF InitServiceIfNeeded, InitOutcome
<1>5. HalStop(wifi_offload_hal, ok)
  BY <1>1, <1>3, <1>4 DEF Usable
<1>6. QED BY <1>5 DEF HalStop, HalScanKnown

LEMMA StartLeavesNoOrphan ==
    ASSUME IInv, OrphanInv, ~HalFaults, NEW s \in Settings, startPnoScan(s)
    PROVE  OrphanInv'
<1> USE DEF OrphanInv
<1>1. CASE StartPnoScanOffload(s, TRUE)
  <2>1. /\ startScan(s, TRUE)
        /\ pno_scan_running_over_offload' = TRUE
        /\ UNCHANGED <<hal_service, hal_count, hal_deaths>>
    BY <1>1 DEF StartPnoScanOffload, startScan
  <2>2. PICK init \in InitServiceIfNeeded(wifi_offload_hal) :
           /\ Initialised(init)
           /\ IF Usable(init) THEN HalStart(init.hal, s, TRUE)
                              ELSE ~TRUE /\ UNCHANGED hal_plan
    BY <2>1 DEF startScan
  <2>3. wifi_offload_hal' = init.hal /\ Reaches(init.hal)
    BY <2>2 DEF Initialised, HalStart
  <2>4. HalNumbered'
    BY <2>1 DEF HalNumbered
  <2>5. HalScanKnown'
    BY <2>1, <2>3 DEF HalScanKnown, Reaches
  <2>6. QED BY <2>4, <2>5
<1>2. CASE StartPnoScanOffload(s, FALSE)
  <2>1. /\ startScan(s, FALSE)
        /\ UNCHANGED <<hal_service, hal_count, hal_deaths>>
    BY <1>2 DEF StartPnoScanOffload, startScan
  <2>2. PICK init \in InitServiceIfNeeded(wifi_offload_hal) :
           /\ Initialised(init)
           /\ IF Usable(init) THEN HalStart(init.hal, s, FALSE)
                              ELSE ~FALSE /\ UNCHANGED hal_plan
    BY <2>1 DEF startScan
  <2>3. hal_plan' = hal_plan
    BY <2>2 DEF HalStart
  <2>4. ASSUME hal_plan # NoScan PROVE FALSE
    <3>1. /\ service_available /\ offload_status = "kNoError"
          /\ Reaches(wifi_offload_hal)
      BY <2>4 DEF HalScanKnown, IInv, OffloadRunUsable
    <3>2. init.ok = TRUE /\ init.hal = wifi_offload_hal
      BY <2>2, <3>1 DEF InitServiceIfNeeded, InitOutcome
    <3>3. HalStart(wifi_offload_hal, s, FALSE)
      BY <2>2, <3>1, <3>2 DEF Usable
    <3>4. QED BY <3>1, <3>3 DEF HalStart
  <2>5. QED BY <2>1, <2>3, <2>4 DEF HalNumbered, HalScanKnown
<1>3. CASE /\ ~offload_scan_supported
           /\ UNCHANGED <<offloadVars, pno_scan_running_over_offload>>
  BY <1>3 DEF HalNumbered, HalScanKnown, Reaches, offloadVars, managerVars, halVars
<1>4. QED BY <1>1, <1>2, <1>3 DEF startPnoScan

LEMMA StopLeavesNoOrphan ==
    ASSUME IInv, OrphanInv, ~HalFaults, NEW ok \in BOOLEAN, stopPnoScan(ok)
    PROVE  OrphanInv'
<1>1. CASE StopPnoScanOffload
  <2>1. hal_plan' = NoScan /\ UNCHANGED <<hal_service, hal_count, hal_deaths>>
    BY <1>1, StopReachesHal, StopOffloadKeeps DEF OrphanInv, stopPnoScan
  <2>2. QED BY <2>1 DEF OrphanInv, HalNumbered, HalScanKnown
<1>2. CASE UNCHANGED <<offloadVars, pno_scan_running_over_offload>>
  BY <1>2 DEF OrphanInv, HalNumbered, HalScanKnown, Reaches, offloadVars,
     managerVars, halVars
<1>3. QED BY <1>1, <1>2 DEF stopPnoScan

LEMMA HalEventLeavesNoOrphan ==
    ASSUME IInv, OrphanInv, ~HalFaults, DispatchHalEvent
    PROVE  OrphanInv'
<1>1. \/ UNCHANGED <<managerVars, halVars, hal_deaths,
                     pno_scan_running_over_offload>>
      \/ StopPnoScanOffload
  BY DEF DispatchHalEvent, ReportScanResults, ReportError, OnOffloadError,
     scannerVars
<1>2. CASE UNCHANGED <<managerVars, halVars, hal_deaths,
                       pno_scan_running_over_offload>>
  BY <1>2 DEF OrphanInv, HalNumbered, HalScanKnown, Reaches, managerVars, halVars
<1>3. CASE StopPnoScanOffload
  <2>1. hal_plan' = NoScan /\ UNCHANGED <<hal_service, hal_count, hal_deaths>>
    BY <1>3, StopReachesHal, StopOffloadKeeps DEF OrphanInv, DispatchHalEvent
  <2>2. QED BY <2>1 DEF OrphanInv, HalNumbered, HalScanKnown
<1>4. QED BY <1>1, <1>2, <1>3

(* The proxy that a notified death clears was not that of a scanning HAL.   *)
LEMMA DeathLeavesNoOrphan ==
    ASSUME OrphanInv, DispatchDeath
    PROVE  OrphanInv'
<1>1. PICK cookie \in hal_deaths : OnObjectDeath(cookie)
  BY DEF DispatchDeath
<1>2. /\ hal_deaths' = hal_deaths \ {cookie}
      /\ UNCHANGED <<hal_service, hal_count, hal_plan,
                     pno_scan_running_over_offload>>
      /\ wifi_offload_hal # cookie => wifi_offload_hal' = wifi_offload_hal
  BY <1>1 DEF OnObjectDeath, halVars, scannerVars, managerVars
<1>3. HalNumbered'
  BY <1>2 DEF OrphanInv, HalNumbered
<1>4. HalScanKnown'
  BY <1>1, <1>2 DEF OrphanInv, HalNumbered, HalScanKnown, Reaches
<1>5. QED BY <1>3, <1>4 DEF OrphanInv

LEMMA HalSideLeavesNoOrphan ==
    ASSUME IInv, OrphanInv,
           \/ HalSide(HalStarts)
           \/ HalSide(HalDies)
           \/ \E e \in HalEvent : HalSide(HalReports(e))
    PROVE  OrphanInv'
<1>1. /\ pno_scan_running_over_offload' = pno_scan_running_over_offload
      /\ HalStarts \/ HalDies \/ \E e \in HalEvent : HalReports(e)
  BY DEF HalSide, scannerVars
<1>2. /\ hal_service \in Nat /\ hal_count \in Nat
      /\ hal_deaths \subseteq 1..hal_count
      /\ hal_service <= hal_count
  BY OffloadAssumption DEF IInv, TypeOK, OffloadTypeOK, OrphanInv, HalNumbered
<1>3. CASE HalStarts
  <2>1. HalNumbered'
    BY <1>2, <1>3 DEF HalStarts, HalNumbered
  <2>2. hal_plan' = NoScan
    BY <1>3 DEF HalStarts, OrphanInv, HalScanKnown, Reaches
  <2>3. QED BY <2>1, <2>2 DEF OrphanInv, HalScanKnown
<1>4. CASE HalDies
  <2>1. /\ hal_service' = 0 /\ hal_count' = hal_count /\ hal_plan' = NoScan
        /\ hal_deaths' \subseteq hal_deaths \cup {hal_service}
        /\ hal_service # 0
    BY <1>4 DEF HalDies, NullHal
  <2>2. HalNumbered'
    BY <1>2, <2>1 DEF HalNumbered
  <2>3. QED BY <2>1, <2>2 DEF OrphanInv, HalScanKnown
<1>5. ASSUME NEW e \in HalEvent, HalReports(e) PROVE OrphanInv'
  BY <1>1, <1>5 DEF HalReports, OrphanInv, HalNumbered, HalScanKnown, Reaches,
     managerVars
<1>6. QED BY <1>1, <1>3, <1>4, <1>5

LEMMA NextLeavesNoOrphan ==
    ASSUME IInv, OrphanInv, ~HalFaults, [Next]_vars
    PROVE  OrphanInv'
<1>1. CASE UNCHANGED <<offloadVars, pno_scan_running_over_offload>>
  BY <1>1 DEF OrphanInv, HalNumbered, HalScanKnown, Reaches, offloadVars,
     managerVars, halVars
<1>2. CASE Framework
  BY <1>1, <1>2, StartLeavesNoOrphan, StopLeavesNoOrphan
     DEF Framework, subscribePnoScanEvents, unsubscribePnoScanEvents
<1>3. CASE EventLoop
  BY <1>1, <1>3, HalEventLeavesNoOrphan, DeathLeavesNoOrphan
     DEF EventLoop, DispatchKernelEvent
<1>4. CASE Environment
  BY <1>1, <1>4, HalSideLeavesNoOrphan DEF Environment, KernelSide, scannerVars
<1>5. CASE UNCHANGED vars
  BY <1>1, <1>5 DEF vars, scannerVars
<1>6. QED BY <1>2, <1>3, <1>4, <1>5 DEF Next

(* If calls on a live HAL do not fail, no restart, fallback, death or error *)
(* leaves the HAL scanning for wificond without ScannerImpl knowing it.     *)
THEOREM NoScanIsOrphaned ==
    ASSUME ~HalFaults
    PROVE  Spec => []NoOrphanHalScan
<1>1. Init => OrphanInv
  BY DEF Init, OffloadInit, OrphanInv, HalNumbered, HalScanKnown
<1>2. IInv /\ OrphanInv /\ [Next]_vars => OrphanInv'
  BY NextLeavesNoOrphan
<1>3. OrphanInv => NoOrphanHalScan
  BY DEF OrphanInv, HalScanKnown, NoOrphanHalScan
<1>4. QED BY <1>1, <1>2, <1>3, InductiveInvariant, PTL DEF Spec
=============================================================================
