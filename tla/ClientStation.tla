--------------------------- MODULE ClientStation ---------------------------
(***************************************************************************)
(* One station interface: ClientInterfaceImpl, which follows the            *)
(* association through MLME events, and the one-shot half of ScannerImpl,   *)
(* over the part of the kernel both talk to (external).                     *)
(*                                                                          *)
(* Scan and MLME events share one multicast socket and reach wificond in    *)
(* the order the kernel sent them.  Requests go over a second socket: their *)
(* replies, and what they tell of the kernel, overtake the events.  Other   *)
(* processes (the supplicant) scan and connect on the same interface.       *)
(***************************************************************************)
EXTENDS Naturals, Sequences

CONSTANTS
    BSS,         \* access points, each on a frequency of its own
    NoBss,       \* "none": no association, an empty bssid_
    Macs,        \* addresses the interface may be given
    BadMac,      \* a byte array of another length
    MaxEvents,   \* bound on the events waiting on the async socket
    Faults       \* what may go wrong, see the ASSUME

ASSUME StationAssumption ==
    /\ NoBss \notin BSS
    /\ Macs # {} /\ BadMac \notin Macs
    /\ MaxEvents \in Nat \ {0}
    /\ Faults \subseteq {"refuse",    \* a request is refused
                         "enodev",    \* ... with ENODEV
                         "late_ack",  \* done, but no ack in 300 ms
                         "reject",    \* an AP rejects an association
                         "no_mac"}    \* an MLME event has no MAC attribute

VARIABLES
    is_associated, bssid,
    associate_freq,              \* the BSS whose frequency it is; the member
                                 \* is not initialised: NoBss stands for that
    refreshed,                   \* history: did the last scan dump that looked
                                 \* for the frequency succeed?
    interface_mac_addr,          \* read when the object is made, const
    supports_random_mac_oneshot_scan,
    scan_started,
    scan_event_handler,          \* is the framework subscribed?
    wifi_up, kernel_mac,         \* the interface
    kernel_scan,                 \* who has a scan running: "none", "ours", "other"
    link,                        \* the BSS the interface is associated with
    events,
    heard,                       \* history: the last MLME event dispatched:
                                 \* "nothing" yet, one that is "named" or one
                                 \* that is "nameless", without a MAC
    awaited,                     \* history: a scan answered true has not been
                                 \* reported to the subscriber yet
    crashed

stationVars == <<is_associated, bssid, associate_freq, refreshed,
                 interface_mac_addr>>
scannerVars == <<scan_started, scan_event_handler,
                 supports_random_mac_oneshot_scan>>
kernelVars == <<wifi_up, kernel_mac, kernel_scan, link, events>>
vars == <<stationVars, scannerVars, kernelVars, heard, awaited, crashed>>

Owner == {"none", "ours", "other"}

(* Events: the end of a scan, whose owner is only known here and not to the *)
(* code, and MLME events with what their packets say.  GetCommonFields      *)
(* leaves bssid empty when a packet has no NL80211_ATTR_MAC.                *)
MlmeCommand == {"connect", "associate", "roam", "disconnect", "disassociate"}

ScanEnd == [cmd : {"new_scan_results", "scan_aborted"}, owner : Owner]
Mlme == [cmd : MlmeCommand, bss : BSS \cup {NoBss}, timeout : BOOLEAN, status : {0, 1}]

MlmeEvent(cmd, b, timeout, status) ==
    [cmd |-> cmd, bss |-> b, timeout |-> timeout, status |-> status]

TypeOK ==
    /\ is_associated \in BOOLEAN
    /\ bssid \in BSS \cup {NoBss}
    /\ associate_freq \in BSS \cup {NoBss}
    /\ refreshed \in BOOLEAN
    /\ interface_mac_addr \in Macs
    /\ supports_random_mac_oneshot_scan \in BOOLEAN
    /\ scan_started \in BOOLEAN
    /\ scan_event_handler \in BOOLEAN
    /\ wifi_up \in BOOLEAN
    /\ kernel_mac \in Macs
    /\ kernel_scan \in Owner
    /\ link \in BSS \cup {NoBss}
    /\ events \in Seq(ScanEnd \cup Mlme)
    /\ heard \in {"nothing", "named", "nameless"}
    /\ awaited \in BOOLEAN
    /\ crashed \in BOOLEAN

(* The constructors.  wificond may have been restarted under a supplicant   *)
(* that is associated and scanning.                                         *)
Init ==
    /\ is_associated = FALSE
    /\ bssid = NoBss
    /\ associate_freq = NoBss
    /\ refreshed = FALSE
    /\ kernel_mac \in Macs
    /\ interface_mac_addr = kernel_mac
    /\ supports_random_mac_oneshot_scan \in BOOLEAN
    /\ scan_started = FALSE
    /\ scan_event_handler = FALSE
    /\ wifi_up \in BOOLEAN
    /\ kernel_scan \in {"none", "other"}
    /\ link \in BSS \cup {NoBss}
    /\ ~wifi_up => kernel_scan = "none" /\ link = NoBss
    /\ events = <<>>
    /\ heard = "nothing"
    /\ awaited = FALSE
    /\ crashed = FALSE

---------------------------------------------------------------------------
(* The kernel's answer to NL80211_CMD_TRIGGER_SCAN.  One scan runs at a     *)
(* time, none on an interface that is down, and an associated station does  *)
(* not scan with a random address.                                          *)
ScanIsPossible(request_random_mac) ==
    /\ wifi_up
    /\ kernel_scan = "none"
    /\ request_random_mac => link = NoBss

Scan(request_random_mac, res) ==
    /\ UNCHANGED <<wifi_up, kernel_mac, link, events>>
    /\ \/ /\ res = "ok"
          /\ ScanIsPossible(request_random_mac)
          /\ kernel_scan' = "ours"
       \/ /\ res = "error"
          /\ ~ScanIsPossible(request_random_mac) \/ "refuse" \in Faults
          /\ UNCHANGED kernel_scan
       \/ /\ res = "error"
          /\ "late_ack" \in Faults
          /\ ScanIsPossible(request_random_mac)
          /\ kernel_scan' = "ours"
       \/ /\ res = "enodev"
          /\ "enodev" \in Faults
          /\ UNCHANGED kernel_scan

(* The kernel's scan, if one runs, ends and its end is multicast.           *)
ScanEvent(aborted) ==
    [cmd |-> IF aborted THEN "scan_aborted" ELSE "new_scan_results",
     owner |-> kernel_scan]

(* NL80211_CMD_ABORT_SCAN ends whatever scan runs on the interface.         *)
AbortScan ==
    /\ \/ /\ kernel_scan # "none"
          /\ Len(events) < MaxEvents
          /\ kernel_scan' = "none"
          /\ events' = Append(events, ScanEvent(TRUE))
       \/ /\ kernel_scan = "none" \/ "refuse" \in Faults
          /\ UNCHANGED <<kernel_scan, events>>
    /\ UNCHANGED <<wifi_up, kernel_mac, link>>

---------------------------------------------------------------------------
(* Requests of the framework: ScannerImpl.                                  *)

(* scan asks for a random address when it believes not to be associated.    *)
RequestRandomMac == supports_random_mac_oneshot_scan /\ ~is_associated

scan(res) ==
    /\ ~crashed
    /\ Scan(RequestRandomMac, res)
    /\ crashed' = (res = "enodev")
    /\ scan_started' = (scan_started \/ res = "ok")
    /\ awaited' = (awaited \/ (res = "ok" /\ scan_event_handler))
    /\ UNCHANGED <<stationVars, scan_event_handler,
                   supports_random_mac_oneshot_scan, heard>>

abortScan ==
    /\ ~crashed
    /\ IF scan_started THEN AbortScan ELSE UNCHANGED kernelVars
    /\ UNCHANGED <<stationVars, scannerVars, heard, awaited, crashed>>

subscribeScanEvents ==
    /\ ~crashed
    /\ scan_event_handler' = TRUE
    /\ UNCHANGED <<stationVars, scan_started, supports_random_mac_oneshot_scan,
                   kernelVars, heard, awaited, crashed>>

unsubscribeScanEvents ==
    /\ ~crashed
    /\ scan_event_handler' = FALSE
    /\ awaited' = FALSE
    /\ UNCHANGED <<stationVars, scan_started, supports_random_mac_oneshot_scan,
                   kernelVars, heard, crashed>>

---------------------------------------------------------------------------
(* Mutant: the length of the address is not checked.                        *)
StepsDone_Unchecked(mac, done) == done = 3 \/ "refuse" \in Faults

(* SetMacAddress: down, set, up, each of which may fail and end the call.   *)
(* done is how many of the three were done; the caller gets done = 3.       *)
StepsDone(mac, done) ==
    IF mac = BadMac THEN done = 0 ELSE done = 3 \/ "refuse" \in Faults

(* Taking the interface down ends its scan and its association.  The        *)
(* address in a DISCONNECT or DISASSOCIATE is never looked at.              *)
DownEvents ==
    (IF kernel_scan = "none" THEN <<>> ELSE <<ScanEvent(TRUE)>>)
    \o (IF link = NoBss THEN <<>>
        ELSE <<MlmeEvent("disconnect", NoBss, FALSE, 0)>>)

(* The station interface is taken for the one that SetWifiUpState, which is *)
(* given no name, takes down and up.                                        *)
setMacAddress(mac, done) ==
    /\ ~crashed
    /\ StepsDone(mac, done)
    /\ IF done = 0
       THEN UNCHANGED kernelVars
       ELSE /\ Len(events) + Len(DownEvents) <= MaxEvents
            /\ events' = events \o DownEvents
            /\ kernel_scan' = "none"
            /\ link' = NoBss
            /\ wifi_up' = (done = 3)
            /\ kernel_mac' = IF done = 1 THEN kernel_mac ELSE mac
    /\ UNCHANGED <<stationVars, scannerVars, heard, awaited, crashed>>

---------------------------------------------------------------------------
(* Events.                                                                  *)

(* Mutant: results of a scan not on record are dropped.                     *)
OnScanResultsReady_OwnOnly(owner) ==
    /\ scan_started' = FALSE
    /\ awaited' = (awaited /\ ~(scan_started /\ owner = "ours"))
    /\ UNCHANGED <<stationVars, heard>>

(* OnScanResultsReady reports every scan that ends, its own or another's.   *)
OnScanResultsReady(owner) ==
    /\ scan_started' = FALSE
    /\ awaited' = (awaited /\ ~(scan_event_handler /\ owner = "ours"))
    /\ UNCHANGED <<stationVars, heard>>

(* RefreshAssociateFreq looks for the BSS that the kernel, now, marks as    *)
(* associated, and keeps the old frequency when there is none.              *)
RefreshAssociateFreq ==
    \/ /\ associate_freq' = IF link = NoBss THEN associate_freq ELSE link
       /\ refreshed' = TRUE
    \/ /\ UNCHANGED associate_freq
       /\ refreshed' = FALSE

(* The status code the MLME handlers see: MlmeAssociateEvent always has 0.  *)
GetStatusCode(e) == IF e.cmd = "associate" THEN 0 ELSE e.status

Associated(b) ==
    /\ is_associated' = TRUE
    /\ RefreshAssociateFreq
    /\ bssid' = b

NotAssociated ==
    /\ is_associated' = FALSE
    /\ bssid' = NoBss
    /\ UNCHANGED <<associate_freq, refreshed>>

(* OnConnect and OnAssociate have the same body.                            *)
OnConnect(e) ==
    IF ~e.timeout /\ GetStatusCode(e) = 0 THEN Associated(e.bss)
    ELSE NotAssociated

(* Mutant: a station that roams keeps the BSSID it had.                     *)
OnRoam_KeepBssid(e) ==
    /\ is_associated' = TRUE
    /\ RefreshAssociateFreq
    /\ UNCHANGED bssid

OnRoam(e) == Associated(e.bss)

(* Mutant: the frequency is looked up for CONNECT only.                     *)
OnMlmeEvent_FreqOnConnect(e) ==
    /\ CASE e.cmd \in {"connect", "associate"} -> OnConnect(e)
         [] e.cmd = "roam" -> /\ is_associated' = TRUE
                              /\ bssid' = e.bss
                              /\ UNCHANGED <<associate_freq, refreshed>>
         [] e.cmd \in {"disconnect", "disassociate"} -> NotAssociated
    /\ heard' = IF e.bss = NoBss THEN "nameless" ELSE "named"
    /\ UNCHANGED <<interface_mac_addr, scan_started, awaited>>

(* OnDisconnect and OnDisassociate have the same body.                      *)
OnMlmeEvent(e) ==
    /\ CASE e.cmd \in {"connect", "associate"} -> OnConnect(e)
         [] e.cmd = "roam" -> OnRoam(e)
         [] e.cmd \in {"disconnect", "disassociate"} -> NotAssociated
    /\ heard' = IF e.bss = NoBss THEN "nameless" ELSE "named"
    /\ UNCHANGED <<interface_mac_addr, scan_started, awaited>>

(* NetlinkManager's BroadcastHandler on the next event of the async socket. *)
BroadcastHandler ==
    /\ ~crashed
    /\ events # <<>>
    /\ events' = Tail(events)
    /\ IF Head(events).cmd \in MlmeCommand
       THEN OnMlmeEvent(Head(events))
       ELSE OnScanResultsReady(Head(events).owner)
    /\ UNCHANGED <<scan_event_handler, supports_random_mac_oneshot_scan,
                   wifi_up, kernel_mac, kernel_scan, link, crashed>>

---------------------------------------------------------------------------
(* The kernel and the other processes that use the interface.               *)
KernelSends(e) ==
    /\ Len(events) < MaxEvents
    /\ events' = Append(events, e)

(* What an event about access point b says of its address.                  *)
Address(b) == IF "no_mac" \in Faults THEN {b, NoBss} ELSE {b}

(* A station without an SME reports CONNECT, one with an SME ASSOCIATE.     *)
Associates(b, cmd) ==
    /\ wifi_up
    /\ link = NoBss
    /\ link' = b
    /\ \E mac \in Address(b) : KernelSends(MlmeEvent(cmd, mac, FALSE, 0))
    /\ UNCHANGED <<wifi_up, kernel_mac, kernel_scan>>

FailsToAssociate(b, cmd, timeout) ==
    /\ wifi_up
    /\ link = NoBss
    /\ cmd = "connect" \/ timeout \/ "reject" \in Faults
    /\ \E mac \in Address(b) : KernelSends(MlmeEvent(cmd, mac, timeout, 1))
    /\ UNCHANGED <<wifi_up, kernel_mac, kernel_scan, link>>

Roams(b) ==
    /\ link \in BSS \ {b}
    /\ link' = b
    /\ \E mac \in Address(b) : KernelSends(MlmeEvent("roam", mac, FALSE, 0))
    /\ UNCHANGED <<wifi_up, kernel_mac, kernel_scan>>

LosesLink(cmd) ==
    /\ link # NoBss
    /\ link' = NoBss
    /\ KernelSends(MlmeEvent(cmd, NoBss, FALSE, 0))
    /\ UNCHANGED <<wifi_up, kernel_mac, kernel_scan>>

OtherScans ==
    /\ wifi_up
    /\ kernel_scan = "none"
    /\ kernel_scan' = "other"
    /\ UNCHANGED <<wifi_up, kernel_mac, link, events>>

ScanEnds(aborted) ==
    /\ kernel_scan # "none"
    /\ kernel_scan' = "none"
    /\ KernelSends(ScanEvent(aborted))
    /\ UNCHANGED <<wifi_up, kernel_mac, link>>

ComesUp ==
    /\ ~wifi_up
    /\ wifi_up' = TRUE
    /\ UNCHANGED <<kernel_mac, kernel_scan, link, events>>

KernelStep ==
    \/ \E b \in BSS, cmd \in {"connect", "associate"} :
          \/ Associates(b, cmd)
          \/ \E timeout \in BOOLEAN : FailsToAssociate(b, cmd, timeout)
    \/ \E b \in BSS : Roams(b)
    \/ \E cmd \in {"disconnect", "disassociate"} : LosesLink(cmd)
    \/ OtherScans
    \/ \E aborted \in BOOLEAN : ScanEnds(aborted)
    \/ ComesUp

Environment ==
    /\ ~crashed
    /\ KernelStep
    /\ UNCHANGED <<stationVars, scannerVars, heard, awaited, crashed>>

Next ==
    \/ \E res \in {"ok", "error", "enodev"} : scan(res)
    \/ abortScan
    \/ subscribeScanEvents
    \/ unsubscribeScanEvents
    \/ \E mac \in Macs \cup {BadMac}, done \in 0..3 : setMacAddress(mac, done)
    \/ BroadcastHandler
    \/ Environment

Spec == Init /\ [][Next]_vars

---------------------------------------------------------------------------
IsMlme(e) == e.cmd \in MlmeCommand

(* No MLME event waits: wificond has heard all there is to hear.            *)
NoNews == \A i \in DOMAIN events : ~IsMlme(events[i])

(* A scan that was answered true while the framework listened is running or *)
(* the event of its end is queued: whatever other scans, aborts, late       *)
(* acknowledgements and changes of the interface come in between,           *)
(* OnScanResultsReady has still to report it.                               *)
AwaitedScanEnds ==
    awaited =>
        \/ kernel_scan = "ours"
        \/ \E i \in DOMAIN events :
              ~IsMlme(events[i]) /\ events[i].owner = "ours"

(* Once one MLME event has been handled and no other one waits,             *)
(* ClientInterfaceImpl believes to be associated exactly when the kernel    *)
(* is, and its bssid_ is the kernel's if that last event named it.  After   *)
(* one without NL80211_ATTR_MAC bssid_ is empty, also while associated:     *)
(* never is it that of an access point of the past.                         *)
AssociationTracksKernel ==
    heard # "nothing" /\ NoNews =>
        /\ is_associated <=> link # NoBss
        /\ bssid = IF heard = "named" THEN link ELSE NoBss

(* With no MLME event waiting the frequency that SignalPoll answers with is *)
(* that of the BSS the interface is associated with, however late the       *)
(* events were read and however many dumps failed before, if the dump for   *)
(* the last of them succeeded.                                              *)
FrequencySettles ==
    heard # "nothing" /\ NoNews /\ is_associated /\ refreshed =>
        associate_freq = link
=============================================================================
