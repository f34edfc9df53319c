------------------------------- MODULE SoftAp -------------------------------
(***************************************************************************)
(* A soft AP: ApInterfaceImpl and its binder, which count the stations of a *)
(* hotspot from kernel events, over hostapd and the kernel (external).      *)
(* Station events reach wificond later than the requests that cause them,   *)
(* and the object that counts them is destroyed and made again in between.  *)
(* Stations are anonymous: the code uses their addresses for its log only.  *)
(***************************************************************************)
EXTENDS Naturals, Sequences

CONSTANTS
    MaxStations,  \* bound on the stations of the hotspot
    MaxEvents     \* bound on the events waiting on the async socket

ASSUME SoftApAssumption == MaxStations \in Nat /\ MaxEvents \in Nat

VARIABLES
    impl,                            \* is there an ApInterfaceImpl?
    number_of_associated_stations,
    ap_interface_event_callback,     \* is one set?
    told,                            \* history: the number it was told last
    emptied,                         \* history: "object" if the hotspot has been
                                     \* without stations in the life time of the
                                     \* object, "callback" in the callback's
    hostapd,                         \* "stopped", "starting" or "running"
    up,                              \* is the interface up?
    mode,                            \* its mode, "station" or "ap"
    stations,                        \* how many stations are associated
    events                           \* NEW_STATION and DEL_STATION, in order

binderVars == <<ap_interface_event_callback, told>>
kernelVars == <<hostapd, up, mode, stations, events>>
vars == <<impl, number_of_associated_stations, binderVars, kernelVars, emptied>>

(* The life times in which the hotspot has been empty, after a step that    *)
(* may have begun some of them.                                             *)
Emptied(begun) ==
    emptied' = IF stations' = 0 THEN {"object", "callback"}
               ELSE emptied \ begun

TypeOK ==
    /\ impl \in BOOLEAN
    /\ number_of_associated_stations \in Nat
    /\ ap_interface_event_callback \in BOOLEAN
    /\ told \in Nat
    /\ emptied \subseteq {"object", "callback"}
    /\ hostapd \in {"stopped", "starting", "running"}
    /\ up \in BOOLEAN
    /\ mode \in {"station", "ap"}
    /\ stations \in 0..MaxStations
    /\ events \in Seq({"NEW_STATION", "DEL_STATION"})

Init ==
    /\ impl = FALSE
    /\ number_of_associated_stations = 0
    /\ ap_interface_event_callback = FALSE
    /\ told = 0
    /\ emptied = {"object", "callback"}
    /\ hostapd = "stopped"
    /\ up = FALSE
    /\ mode = "station"
    /\ stations = 0
    /\ events = <<>>

---------------------------------------------------------------------------
(* The interface goes down: its stations are gone and the kernel says so    *)
(* once for each.                                                           *)
Down ==
    /\ Len(events) + stations <= MaxEvents
    /\ up' = FALSE
    /\ stations' = 0
    /\ events' = events \o [i \in 1..stations |-> "DEL_STATION"]

(* Mutant: the constructor leaves the number as it finds it.                *)
createApInterface_Uninitialised ==
    /\ ~impl
    /\ impl' = TRUE
    /\ ap_interface_event_callback' = FALSE
    /\ told' = 0
    /\ UNCHANGED <<number_of_associated_stations, kernelVars>>
    /\ Emptied({"object"})

(* The constructor.                                                         *)
createApInterface ==
    /\ ~impl
    /\ impl' = TRUE
    /\ number_of_associated_stations' = 0
    /\ ap_interface_event_callback' = FALSE
    /\ told' = 0
    /\ UNCHANGED kernelVars
    /\ Emptied({"object"})

(* The destructor takes the interface down and leaves hostapd alone.  It    *)
(* does not look whether SetUpState succeeds.                               *)
tearDownApInterface ==
    /\ impl
    /\ impl' = FALSE
    /\ \/ Down
       \/ UNCHANGED <<up, stations, events>>
    /\ UNCHANGED <<number_of_associated_stations, binderVars, hostapd, mode>>
    /\ Emptied({})

(* startHostapd: the callback is kept if hostapd starts, or already runs.   *)
startHostapd(ok) ==
    /\ impl
    /\ IF ok
       THEN /\ hostapd' = IF hostapd = "stopped" THEN "starting" ELSE hostapd
            /\ ap_interface_event_callback' = TRUE
            /\ told' = 0
       ELSE UNCHANGED <<hostapd, binderVars>>
    /\ UNCHANGED <<impl, number_of_associated_stations, up, mode, stations,
                   events>>
    /\ Emptied(IF ok THEN {"callback"} ELSE {})

(* stopHostapd: kill, down, back to station mode; each step only if the     *)
(* ones before it were done.  The callback is dropped in any case.          *)
StopHostapd ==
    \/ UNCHANGED kernelVars
    \/ /\ hostapd' = "stopped"
       /\ UNCHANGED <<up, mode, stations, events>>
    \/ /\ hostapd' = "stopped"
       /\ Down
       /\ mode' \in {"station", mode}

stopHostapd ==
    /\ impl
    /\ StopHostapd
    /\ ap_interface_event_callback' = FALSE
    /\ UNCHANGED <<impl, number_of_associated_stations, told>>
    /\ Emptied({})

---------------------------------------------------------------------------
(* Mutant: the counter goes below zero (and wraps in an unsigned world).    *)
OnStationEvent_NoFloor(e) ==
    /\ number_of_associated_stations' =
          IF e = "NEW_STATION" THEN number_of_associated_stations + 1
          ELSE number_of_associated_stations - 1
    /\ told' = IF ap_interface_event_callback
               THEN number_of_associated_stations' ELSE told

(* Mutant: the callback is told the number before it changes.               *)
OnStationEvent_NotifyFirst(e) ==
    IF e = "DEL_STATION" /\ number_of_associated_stations <= 0
    THEN UNCHANGED <<number_of_associated_stations, told>>
    ELSE /\ number_of_associated_stations' =
               IF e = "NEW_STATION" THEN number_of_associated_stations + 1
               ELSE number_of_associated_stations - 1
         /\ told' = IF ap_interface_event_callback
                    THEN number_of_associated_stations ELSE told

(* Mutant: without a callback an event is ignored altogether.               *)
OnStationEvent_OnlyWithCallback(e) ==
    IF ~ap_interface_event_callback
       \/ (e = "DEL_STATION" /\ number_of_associated_stations <= 0)
    THEN UNCHANGED <<number_of_associated_stations, told>>
    ELSE /\ number_of_associated_stations' =
               IF e = "NEW_STATION" THEN number_of_associated_stations + 1
               ELSE number_of_associated_stations - 1
         /\ told' = number_of_associated_stations'

(* OnStationEvent.  A DEL_STATION that would make the count negative is     *)
(* ignored and not reported.                                                *)
OnStationEvent(e) ==
    IF e = "DEL_STATION" /\ number_of_associated_stations <= 0
    THEN UNCHANGED <<number_of_associated_stations, told>>
    ELSE /\ number_of_associated_stations' =
               IF e = "NEW_STATION" THEN number_of_associated_stations + 1
               ELSE number_of_associated_stations - 1
         /\ told' = IF ap_interface_event_callback
                    THEN number_of_associated_stations' ELSE told

(* BroadcastHandler: without an object there is no handler.                 *)
BroadcastHandler ==
    /\ events # <<>>
    /\ events' = Tail(events)
    /\ IF impl THEN OnStationEvent(Head(events))
       ELSE UNCHANGED <<number_of_associated_stations, told>>
    /\ UNCHANGED <<impl, ap_interface_event_callback, hostapd, up, mode,
                   stations, emptied>>

---------------------------------------------------------------------------
(* hostapd and the stations.                                                *)
HostapdConfigures ==
    /\ hostapd = "starting"
    /\ hostapd' = "running"
    /\ up' = TRUE
    /\ mode' = "ap"
    /\ UNCHANGED <<impl, number_of_associated_stations, binderVars, stations,
                   events, emptied>>

StationJoins ==
    /\ hostapd = "running" /\ up /\ mode = "ap"
    /\ stations < MaxStations
    /\ Len(events) < MaxEvents
    /\ stations' = stations + 1
    /\ events' = Append(events, "NEW_STATION")
    /\ UNCHANGED <<impl, number_of_associated_stations, binderVars, hostapd,
                   up, mode>>
    /\ Emptied({})

StationLeaves ==
    /\ stations > 0
    /\ Len(events) < MaxEvents
    /\ stations' = stations - 1
    /\ events' = Append(events, "DEL_STATION")
    /\ UNCHANGED <<impl, number_of_associated_stations, binderVars, hostapd,
                   up, mode>>
    /\ Emptied({})

Next ==
    \/ createApInterface
    \/ tearDownApInterface
    \/ \E ok \in BOOLEAN : startHostapd(ok)
    \/ stopHostapd
    \/ BroadcastHandler
    \/ HostapdConfigures
    \/ StationJoins
    \/ StationLeaves

Spec == Init /\ [][Next]_vars

---------------------------------------------------------------------------
(* When no station event waits, getNumberOfAssociatedStations answers with  *)
(* the number of stations, provided that the hotspot has been empty at some *)
(* time since the object was made.  Each object starts from zero, hears     *)
(* events of its predecessor's time and ignores a DEL_STATION it cannot     *)
(* account for; an empty hotspot puts the count right whatever failed and   *)
(* in whichever order the framework made its calls.                         *)
CountSettles ==
    impl /\ events = <<>> /\ "object" \in emptied =>
        number_of_associated_stations = stations

(* A callback given to startHostapd then has been told that number, or it   *)
(* is zero, if the hotspot has been empty since startHostapd, although      *)
(* events of an earlier run of hostapd reach the new callback too.          *)
CallbackSettles ==
    /\ impl /\ ap_interface_event_callback /\ events = <<>>
    /\ "callback" \in emptied
    => told = stations

(* An object never counts a station that is not there: it may have missed   *)
(* stations of its predecessor's time, and then ignores that they leave.    *)
CountNeverExceeds ==
    impl /\ events = <<>> => number_of_associated_stations <= stations
=============================================================================
