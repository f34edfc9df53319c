-------------------------- MODULE SchedScanKernel --------------------------
(***************************************************************************)
(* The kernel's side of a scheduled (PNO) scan, as seen through the nl80211 *)
(* requests of scanning/scan_utils.cpp and the multicast events that        *)
(* net/netlink_manager.cpp dispatches.  It is external to wificond: the     *)
(* operators say what the two requests may do and what the driver may do by *)
(* itself.                                                                  *)
(*                                                                          *)
(* Requests are synchronous (a request socket and a 300 ms wait), events    *)
(* are queued on a second socket and reach the scanner later: a reply can   *)
(* overtake an event that the kernel sent before it.                        *)
(***************************************************************************)
EXTENDS ScanPlans, Naturals, Sequences

CONSTANTS
    MaxKernelEvents,  \* bound on the events waiting on the async socket
    KernelFaults      \* what may go wrong in a request, see the ASSUME

ASSUME KernelAssumption ==
    /\ MaxKernelEvents \in Nat \ {0}
    /\ KernelFaults \subseteq {"refuse",    \* any error but ENODEV
                               "enodev",    \* the device is gone
                               "late_ack"}  \* done, but no ack in 300 ms

VARIABLES
    kernel_plan,      \* the settings the driver scans with, or NoScan
    kernel_events     \* SCHED_SCAN_RESULTS / SCHED_SCAN_STOPPED, in order

kernelVars == <<kernel_plan, kernel_events>>

(* "stop_echo" is the SCHED_SCAN_STOPPED that answers wificond's own stop   *)
(* request, "stopped" one the driver sends by itself.  The two differ only  *)
(* here: on the wire, and to the code, they are the same event.             *)
KernelEvent == {"results", "stopped", "stop_echo"}

KernelTypeOK ==
    /\ kernel_plan \in Plan
    /\ kernel_events \in Seq(KernelEvent)

(* A wificond that died leaves its scan running: a plan the new process     *)
(* knows nothing of may be there from the start.                            *)
KernelInit ==
    /\ kernel_plan \in Plan
    /\ kernel_events = <<>>

RoomForEvent == Len(kernel_events) < MaxKernelEvents

---------------------------------------------------------------------------
(* NL80211_CMD_START_SCHED_SCAN and its three kinds of outcome: res is what *)
(* ScanUtils::StartScheduledScan returns, "enodev" being false with the     *)
(* error code ENODEV.  A second start while one runs is EINPROGRESS.        *)
StartScheduledScan(s, res) ==
    /\ UNCHANGED kernel_events
    /\ \/ /\ res = "ok"
          /\ kernel_plan = NoScan
          /\ kernel_plan' = s
       \/ /\ res = "error"
          /\ kernel_plan # NoScan \/ "refuse" \in KernelFaults
          /\ UNCHANGED kernel_plan
       \/ /\ res = "error"
          /\ "late_ack" \in KernelFaults
          /\ kernel_plan = NoScan
          /\ kernel_plan' = s
       \/ /\ res = "enodev"
          /\ "enodev" \in KernelFaults
          /\ UNCHANGED kernel_plan

(* NL80211_CMD_STOP_SCHED_SCAN: ENOENT when nothing runs, otherwise the     *)
(* scan ends and the kernel multicasts SCHED_SCAN_STOPPED.                  *)
StopScheduledScan(ok) ==
    \/ /\ kernel_plan = NoScan
       /\ ~ok
       /\ UNCHANGED kernelVars
    \/ /\ kernel_plan # NoScan
       /\ ok \/ "late_ack" \in KernelFaults
       /\ RoomForEvent
       /\ kernel_plan' = NoScan
       /\ kernel_events' = Append(kernel_events, "stop_echo")

---------------------------------------------------------------------------
(* What the driver does by itself.                                          *)
KernelFindsNetwork ==
    /\ kernel_plan # NoScan
    /\ RoomForEvent
    /\ kernel_events' = Append(kernel_events, "results")
    /\ UNCHANGED kernel_plan

KernelStopsScan ==
    /\ kernel_plan # NoScan
    /\ RoomForEvent
    /\ kernel_plan' = NoScan
    /\ kernel_events' = Append(kernel_events, "stopped")

=============================================================================
