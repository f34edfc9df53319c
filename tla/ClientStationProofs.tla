------------------------ MODULE ClientStationProofs ------------------------
(***************************************************************************)
(* The queue of events between the kernel and a station interface: the end  *)
(* of a scan that the framework waits for is never lost from it, and its    *)
(* last MLME event tells the state of the link, on which the association    *)
(* and the frequency that wificond believes in rest.                        *)
(***************************************************************************)
EXTENDS ClientStation, Integers, TLAPS

Events == ScanEnd \cup Mlme

(* A queue that gets a tail of events.                                      *)
LEMMA Concatenated ==
    ASSUME NEW s \in Seq(Events), NEW t \in Seq(Events)
    PROVE  /\ s \o t \in Seq(Events)
           /\ DOMAIN (s \o t) = 1..(Len(s) + Len(t))
           /\ \A i \in DOMAIN s : i \in DOMAIN (s \o t) /\ (s \o t)[i] = s[i]
           /\ \A i \in DOMAIN t : /\ Len(s) + i \in DOMAIN (s \o t)
                                  /\ (s \o t)[Len(s) + i] = t[i]
OBVIOUS

(* A queue that gets one event.                                             *)
LEMMA AppendIsConcatenation ==
    ASSUME NEW s \in Seq(Events), NEW e \in Events
    PROVE  /\ <<e>> \in Seq(Events)
           /\ Append(s, e) = s \o <<e>>
OBVIOUS

(* A queue whose first event is read.                                       *)
LEMMA HeadRead ==
    ASSUME NEW s \in Seq(Events), s # <<>>
    PROVE  /\ Head(s) = s[1] /\ Head(s) \in Events
           /\ Tail(s) \in Seq(Events)
           /\ DOMAIN Tail(s) = 1..(Len(s) - 1)
           /\ \A i \in DOMAIN Tail(s) : i + 1 \in DOMAIN s /\ Tail(s)[i] = s[i + 1]
           /\ \A i \in DOMAIN s : i # 1 => i - 1 \in DOMAIN Tail(s)
OBVIOUS

---------------------------------------------------------------------------
(* The parts of TypeOK the proofs use.                                      *)
QueueOK ==
    /\ events \in Seq(Events)
    /\ kernel_scan \in Owner
    /\ link \in BSS \cup {NoBss}

(* The station is associated after event e.                                 *)
Joined(e) ==
    \/ e.cmd = "roam"
    \/ e.cmd \in {"connect", "associate"} /\ ~e.timeout /\ GetStatusCode(e) = 0

(* What MLME event e says is true of link l; it need not name it.           *)
Fits(e, l) ==
    IF Joined(e) THEN l # NoBss /\ e.bss \in {l, NoBss} ELSE l = NoBss

(* The events t tell of every change of the kernel's scan ...               *)
TellsOfScan(t) ==
    \/ kernel_scan' = kernel_scan
    \/ kernel_scan = "none"
    \/ \E i \in DOMAIN t : ~IsMlme(t[i]) /\ t[i].owner = kernel_scan

(* ... and of its link.                                                     *)
TellsOfLink(t) ==
    \/ link' = link /\ \A i \in DOMAIN t : ~IsMlme(t[i])
    \/ \E i \in DOMAIN t : /\ IsMlme(t[i])
                            /\ Fits(t[i], link')
                            /\ \A j \in DOMAIN t : j > i => ~IsMlme(t[j])

(* A step outside the event handlers: it adds events that tell what it did. *)
Moves(t) ==
    /\ events' = events \o t
    /\ kernel_scan' \in Owner
    /\ link' \in BSS \cup {NoBss}
    /\ TellsOfScan(t)
    /\ "reject" \notin Faults => TellsOfLink(t)

(* No event.                                                                *)
LEMMA Silent ==
    ASSUME QueueOK, events' = events, kernel_scan' \in Owner, link' = link,
           kernel_scan' = kernel_scan \/ kernel_scan = "none"
    PROVE  \E t \in Seq(Events) : Moves(t)
<1>1. <<>> \in Seq(Events) /\ events \o <<>> = events
  BY DEF QueueOK
<1>2. Moves(<<>>)
  BY <1>1 DEF QueueOK, Moves, TellsOfScan, TellsOfLink
<1> QED
  BY <1>1, <1>2

(* One event about the scan.                                                *)
LEMMA EndOfScan ==
    ASSUME QueueOK, NEW aborted \in BOOLEAN,
           events' = Append(events, ScanEvent(aborted)), kernel_scan' = "none",
           link' = link
    PROVE  \E t \in Seq(Events) : Moves(t)
<1> DEFINE e == ScanEvent(aborted)
<1>1. e \in Events /\ e.owner = kernel_scan /\ ~IsMlme(e)
  BY DEF QueueOK, ScanEvent, ScanEnd, Events, IsMlme, MlmeCommand
<1>2. events' = events \o <<e>> /\ <<e>> \in Seq(Events)
  BY <1>1, AppendIsConcatenation DEF QueueOK
<1>3. DOMAIN <<e>> = {1} /\ <<e>>[1] = e
  OBVIOUS
<1> HIDE DEF e
<1> QED
  BY <1>1, <1>2, <1>3 DEF Moves, TellsOfScan, TellsOfLink, QueueOK, Owner

(* One MLME event.                                                          *)
LEMMA NewsOfLink ==
    ASSUME QueueOK, NEW cmd \in MlmeCommand, NEW b \in BSS \cup {NoBss},
           NEW timeout \in BOOLEAN, NEW status \in {0, 1},
           events' = Append(events, MlmeEvent(cmd, b, timeout, status)),
           kernel_scan' = kernel_scan, link' \in BSS \cup {NoBss},
           "reject" \notin Faults => Fits(MlmeEvent(cmd, b, timeout, status), link')
    PROVE  \E t \in Seq(Events) : Moves(t)
<1> DEFINE e == MlmeEvent(cmd, b, timeout, status)
<1>1. e \in Events /\ IsMlme(e)
  BY DEF MlmeEvent, Mlme, Events, IsMlme
<1>2. events' = events \o <<e>> /\ <<e>> \in Seq(Events)
  BY <1>1, AppendIsConcatenation DEF QueueOK
<1>3. DOMAIN <<e>> = {1} /\ <<e>>[1] = e
  OBVIOUS
<1>4. "reject" \notin Faults => Fits(e, link')
  OBVIOUS
<1> HIDE DEF e
<1>5. "reject" \notin Faults => TellsOfLink(<<e>>)
  BY <1>1, <1>3, <1>4 DEF TellsOfLink
<1> QED
  BY <1>2, <1>5 DEF Moves, TellsOfScan, QueueOK

(* SetMacAddress takes the interface down.                                  *)
LEMMA GoesDown ==
    ASSUME QueueOK, events' = events \o DownEvents, kernel_scan' = "none",
           link' = NoBss
    PROVE  \E t \in Seq(Events) : Moves(t)
<1> DEFINE e == ScanEvent(TRUE)
           d == MlmeEvent("disconnect", NoBss, FALSE, 0)
<1>1. e \in Events /\ e.owner = kernel_scan /\ ~IsMlme(e)
  BY DEF QueueOK, ScanEvent, ScanEnd, Events, IsMlme, MlmeCommand
<1>2. link # NoBss => d \in Events /\ IsMlme(d) /\ Fits(d, NoBss)
  BY DEF QueueOK, MlmeEvent, Mlme, MlmeCommand, Events, IsMlme, Fits, Joined
<1>3. DownEvents = (IF kernel_scan = "none" THEN <<>> ELSE <<e>>)
                   \o (IF link = NoBss THEN <<>> ELSE <<d>>)
  BY DEF DownEvents
<1>4. kernel_scan' \in Owner /\ link' \in BSS \cup {NoBss}
  BY DEF Owner
<1> HIDE DEF e, d
<1>5. CASE kernel_scan = "none" /\ link = NoBss
  <2>1. DownEvents = <<>> /\ <<>> \in Seq(Events) /\ DOMAIN <<>> = {}
    BY <1>3, <1>5
  <2> QED
    BY <1>4, <1>5, <2>1 DEF Moves, TellsOfScan, TellsOfLink
<1>6. CASE kernel_scan # "none" /\ link = NoBss
  <2>1. DownEvents = <<e>> /\ <<e>> \in Seq(Events)
    BY <1>1, <1>3, <1>6
  <2>2. DOMAIN <<e>> = {1} /\ <<e>>[1] = e
    OBVIOUS
  <2> QED
    BY <1>1, <1>4, <1>6, <2>1, <2>2 DEF Moves, TellsOfScan, TellsOfLink
<1>7. CASE kernel_scan = "none" /\ link # NoBss
  <2>1. DownEvents = <<d>> /\ <<d>> \in Seq(Events)
    BY <1>2, <1>3, <1>7
  <2>2. DOMAIN <<d>> = {1} /\ <<d>>[1] = d
    OBVIOUS
  <2>3. TellsOfLink(<<d>>)
    BY <1>2, <1>7, <2>2 DEF TellsOfLink
  <2> QED
    BY <1>4, <1>7, <2>1, <2>3 DEF Moves, TellsOfScan
<1>8. CASE kernel_scan # "none" /\ link # NoBss
  <2>1. <<e>> \in Seq(Events) /\ <<d>> \in Seq(Events)
    BY <1>1, <1>2, <1>8
  <2>2. DownEvents = <<e>> \o <<d>>
    BY <1>3, <1>8
  <2>3. /\ DownEvents \in Seq(Events)
        /\ DOMAIN DownEvents = 1..2
        /\ DownEvents[1] = e /\ DownEvents[2] = d
    BY <2>1, <2>2, Concatenated
  <2>4. TellsOfScan(DownEvents)
    BY <1>1, <2>3 DEF TellsOfScan
  <2>5. TellsOfLink(DownEvents)
    BY <1>2, <1>8, <2>3 DEF TellsOfLink
  <2> QED
    BY <1>4, <2>3, <2>4, <2>5 DEF Moves
<1> QED
  BY <1>5, <1>6, <1>7, <1>8

(* Every step but BroadcastHandler moves.                                   *)
LEMMA StepsMove ==
    ASSUME QueueOK, [Next]_vars, ~BroadcastHandler
    PROVE  \E t \in Seq(Events) : Moves(t)
<1>0. kernel_scan \in Owner /\ link \in BSS \cup {NoBss}
  BY DEF QueueOK
<1>1. ASSUME NEW res \in {"ok", "error", "enodev"}, scan(res)
      PROVE  \E t \in Seq(Events) : Moves(t)
  BY <1>0, <1>1, Silent DEF scan, Scan, ScanIsPossible, Owner
<1>2. ASSUME UNCHANGED kernelVars
      PROVE  \E t \in Seq(Events) : Moves(t)
  BY <1>0, <1>2, Silent DEF kernelVars
<1>3. CASE abortScan
  <2>1. CASE AbortScan
    <3>1. CASE /\ kernel_scan' = "none"
               /\ events' = Append(events, ScanEvent(TRUE))
      BY <2>1, <3>1, EndOfScan DEF AbortScan
    <3>2. CASE UNCHANGED <<kernel_scan, events>>
      BY <1>0, <2>1, <3>2, Silent DEF AbortScan
    <3> QED
      BY <2>1, <3>1, <3>2 DEF AbortScan
  <2> QED
    BY <1>2, <1>3, <2>1 DEF abortScan
<1>4. CASE subscribeScanEvents \/ unsubscribeScanEvents
  BY <1>2, <1>4 DEF subscribeScanEvents, unsubscribeScanEvents
<1>5. ASSUME NEW mac \in Macs \cup {BadMac}, NEW done \in 0..3,
             setMacAddress(mac, done)
      PROVE  \E t \in Seq(Events) : Moves(t)
  BY <1>2, <1>5, GoesDown DEF setMacAddress
<1>6. ASSUME NEW b \in BSS, NEW cmd \in {"connect", "associate"},
             Associates(b, cmd)
      PROVE  \E t \in Seq(Events) : Moves(t)
  <2>1. PICK mac \in Address(b) : KernelSends(MlmeEvent(cmd, mac, FALSE, 0))
    BY <1>6 DEF Associates
  <2>2. mac \in {b, NoBss} /\ b # NoBss /\ cmd \in MlmeCommand
    BY StationAssumption DEF Address, MlmeCommand
  <2>3. Fits(MlmeEvent(cmd, mac, FALSE, 0), b)
    BY <2>2 DEF Fits, Joined, MlmeEvent, GetStatusCode
  <2> QED
    BY <1>6, <2>1, <2>2, <2>3, NewsOfLink DEF Associates, KernelSends
<1>7. ASSUME NEW b \in BSS, NEW cmd \in {"connect", "associate"},
             NEW timeout \in BOOLEAN, FailsToAssociate(b, cmd, timeout)
      PROVE  \E t \in Seq(Events) : Moves(t)
  <2>1. PICK mac \in Address(b) : KernelSends(MlmeEvent(cmd, mac, timeout, 1))
    BY <1>7 DEF FailsToAssociate
  <2>2. mac \in {b, NoBss} /\ cmd \in MlmeCommand
    BY DEF Address, MlmeCommand
  <2>3. "reject" \notin Faults => Fits(MlmeEvent(cmd, mac, timeout, 1), NoBss)
    BY <1>7 DEF Fits, Joined, MlmeEvent, GetStatusCode, FailsToAssociate
  <2>4. link' = NoBss
    BY <1>7 DEF FailsToAssociate
  <2> QED
    BY <1>7, <2>1, <2>2, <2>3, <2>4, NewsOfLink DEF FailsToAssociate, KernelSends
<1>8. ASSUME NEW b \in BSS, Roams(b)
      PROVE  \E t \in Seq(Events) : Moves(t)
  <2>1. PICK mac \in Address(b) : KernelSends(MlmeEvent("roam", mac, FALSE, 0))
    BY <1>8 DEF Roams
  <2>2. mac \in {b, NoBss} /\ b # NoBss /\ "roam" \in MlmeCommand
    BY StationAssumption DEF Address, MlmeCommand
  <2>3. Fits(MlmeEvent("roam", mac, FALSE, 0), b)
    BY <2>2 DEF Fits, Joined, MlmeEvent
  <2> QED
    BY <1>8, <2>1, <2>2, <2>3, NewsOfLink DEF Roams, KernelSends
<1>9. ASSUME NEW cmd \in {"disconnect", "disassociate"}, LosesLink(cmd)
      PROVE  \E t \in Seq(Events) : Moves(t)
  <2>1. Fits(MlmeEvent(cmd, NoBss, FALSE, 0), NoBss) /\ cmd \in MlmeCommand
    BY DEF Fits, Joined, MlmeEvent, MlmeCommand
  <2> QED
    BY <1>9, <2>1, NewsOfLink DEF LosesLink, KernelSends
<1>10. CASE OtherScans \/ ComesUp
  BY <1>0, <1>10, Silent DEF OtherScans, ComesUp, Owner
<1>11. ASSUME NEW aborted \in BOOLEAN, ScanEnds(aborted)
       PROVE  \E t \in Seq(Events) : Moves(t)
  BY <1>11, EndOfScan DEF ScanEnds, KernelSends
<1>12. CASE Environment
  BY <1>12, <1>6, <1>7, <1>8, <1>9, <1>10, <1>11 DEF Environment, KernelStep
<1>13. CASE UNCHANGED vars
  BY <1>2, <1>13 DEF vars
<1> QED
  BY <1>1, <1>3, <1>4, <1>5, <1>12, <1>13 DEF Next

(* A queue that moves stays one.                                            *)
LEMMA MovesKeepQueue ==
    ASSUME QueueOK, NEW t \in Seq(Events), Moves(t)
    PROVE  QueueOK'
BY Concatenated DEF QueueOK, Moves

(* Reading an event.                                                        *)
LEMMA ReadKeepsQueue ==
    ASSUME QueueOK, BroadcastHandler
    PROVE  /\ QueueOK'
           /\ events # <<>> /\ events' = Tail(events)
           /\ UNCHANGED <<kernel_scan, link, scan_event_handler>>
BY HeadRead DEF QueueOK, BroadcastHandler

---------------------------------------------------------------------------
(* The end of a scan.                                                       *)
AwaitedInv ==
    /\ QueueOK
    /\ awaited => scan_event_handler
    /\ AwaitedScanEnds

(* What a step other than BroadcastHandler may do to awaited.               *)
LEMMA AwaitedChange ==
    ASSUME awaited => scan_event_handler, [Next]_vars, ~BroadcastHandler
    PROVE  /\ awaited' => scan_event_handler'
           /\ awaited' => awaited \/ kernel_scan' = "ours"
<1>1. ASSUME NEW res \in {"ok", "error", "enodev"}, scan(res)
      PROVE  /\ awaited' => scan_event_handler'
             /\ awaited' => awaited \/ kernel_scan' = "ours"
  BY <1>1 DEF scan, Scan
<1>2. CASE abortScan \/ Environment
  BY <1>2 DEF abortScan, Environment, scannerVars
<1>3. CASE subscribeScanEvents \/ unsubscribeScanEvents
  BY <1>3 DEF subscribeScanEvents, unsubscribeScanEvents
<1>4. ASSUME NEW mac \in Macs \cup {BadMac}, NEW done \in 0..3,
             setMacAddress(mac, done)
      PROVE  /\ awaited' => scan_event_handler'
             /\ awaited' => awaited \/ kernel_scan' = "ours"
  BY <1>4 DEF setMacAddress, scannerVars
<1>5. CASE UNCHANGED vars
  BY <1>5 DEF vars, scannerVars
<1> QED
  BY <1>1, <1>2, <1>3, <1>4, <1>5 DEF Next

(* Every step keeps the invariant.                                          *)
LEMMA AwaitedStep == AwaitedInv /\ [Next]_vars => AwaitedInv'
<1> SUFFICES ASSUME AwaitedInv, [Next]_vars PROVE AwaitedInv'
  OBVIOUS
<1> USE DEF AwaitedInv
<1>1. CASE ~BroadcastHandler
  <2>1. PICK t \in Seq(Events) : Moves(t)
    BY <1>1, StepsMove
  <2>2. QueueOK'
    BY <2>1, MovesKeepQueue
  <2>3. /\ awaited' => scan_event_handler'
        /\ awaited' => awaited \/ kernel_scan' = "ours"
    BY <1>1, AwaitedChange
  <2>4. /\ \A i \in DOMAIN events : /\ i \in DOMAIN events'
                                    /\ events'[i] = events[i]
        /\ \A i \in DOMAIN t : /\ Len(events) + i \in DOMAIN events'
                               /\ events'[Len(events) + i] = t[i]
    BY <2>1, Concatenated DEF QueueOK, Moves
  <2>5. ASSUME awaited, kernel_scan' # "ours"
        PROVE  \E i \in DOMAIN events' :
                  ~IsMlme(events'[i]) /\ events'[i].owner = "ours"
    <3>1. CASE kernel_scan = "ours"
      <4>1. PICK i \in DOMAIN t : ~IsMlme(t[i]) /\ t[i].owner = "ours"
        BY <2>1, <2>5, <3>1 DEF Moves, TellsOfScan
      <4> QED
        BY <2>4, <4>1
    <3>2. CASE kernel_scan # "ours"
      BY <2>4, <2>5, <3>2 DEF AwaitedScanEnds
    <3> QED
      BY <3>1, <3>2
  <2>6. AwaitedScanEnds'
    BY <2>3, <2>5 DEF AwaitedScanEnds, IsMlme
  <2> QED
    BY <2>2, <2>3, <2>6
<1>2. CASE BroadcastHandler
  <2>1. /\ QueueOK'
        /\ events # <<>> /\ events' = Tail(events)
        /\ UNCHANGED <<kernel_scan, link, scan_event_handler>>
    BY <1>2, ReadKeepsQueue
  <2>2. awaited' => awaited
    BY <1>2 DEF BroadcastHandler, OnMlmeEvent, OnScanResultsReady
  <2>3. awaited' => ~(~IsMlme(events[1]) /\ events[1].owner = "ours")
    BY <1>2, <2>1, HeadRead
       DEF BroadcastHandler, OnScanResultsReady, IsMlme, QueueOK
  <2>4. /\ \A i \in DOMAIN events' : /\ i + 1 \in DOMAIN events
                                     /\ events'[i] = events[i + 1]
        /\ \A i \in DOMAIN events : i # 1 => i - 1 \in DOMAIN events'
    BY <2>1, HeadRead DEF QueueOK
  <2>5. ASSUME awaited', kernel_scan' # "ours"
        PROVE  \E i \in DOMAIN events' :
                  ~IsMlme(events'[i]) /\ events'[i].owner = "ours"
    <3>1. PICK i \in DOMAIN events :
             ~IsMlme(events[i]) /\ events[i].owner = "ours"
      BY <2>1, <2>2, <2>5 DEF AwaitedScanEnds
    <3>2. i - 1 \in DOMAIN events' /\ i \in Int
      BY <2>3, <2>4, <2>5, <3>1 DEF QueueOK
    <3>3. events'[i - 1] = events[i]
      BY <2>4, <3>2
    <3> QED
      BY <3>1, <3>2, <3>3
  <2>6. AwaitedScanEnds'
    BY <2>5 DEF AwaitedScanEnds, IsMlme
  <2> QED
    BY <2>1, <2>2, <2>6
<1> QED
  BY <1>1, <1>2

(* The queue at the start.                                                  *)
LEMMA QueueInit == Init => QueueOK
BY DEF Init, QueueOK, Owner

(* Whatever is refused, acknowledged late, aborted or taken down, a scan    *)
(* that scan() answered true to a subscribed framework is running, or the   *)
(* event that makes OnScanResultsReady report its end is on the socket.     *)
THEOREM NoAwaitedScanIsLost == Spec => []AwaitedScanEnds
<1>1. Init => AwaitedInv
  BY QueueInit DEF Init, AwaitedInv, AwaitedScanEnds
<1>2. AwaitedInv => AwaitedScanEnds
  BY DEF AwaitedInv
<1> QED
  BY <1>1, <1>2, AwaitedStep, PTL DEF Spec

---------------------------------------------------------------------------
(* The link.  AssociationTracksKernel speaks of empty queues; it is         *)
(* inductive with what the last MLME event in a queue says.                 *)
LastNewsIsTrue ==
    \A i \in DOMAIN events :
        /\ IsMlme(events[i])
        /\ \A j \in DOMAIN events : j > i => ~IsMlme(events[j])
        => Fits(events[i], link)

LinkInv == QueueOK /\ LastNewsIsTrue /\ AssociationTracksKernel

(* Only the handlers of events touch what ClientInterfaceImpl believes.     *)
LEMMA BeliefChange ==
    ASSUME [Next]_vars, ~BroadcastHandler
    PROVE  UNCHANGED <<is_associated, bssid, heard>>
<1>1. ASSUME NEW res \in {"ok", "error", "enodev"}, scan(res)
      PROVE  UNCHANGED <<is_associated, bssid, heard>>
  BY <1>1 DEF scan, stationVars
<1>2. ASSUME NEW mac \in Macs \cup {BadMac}, NEW done \in 0..3,
             setMacAddress(mac, done)
      PROVE  UNCHANGED <<is_associated, bssid, heard>>
  BY <1>2 DEF setMacAddress, stationVars
<1>3. CASE \/ abortScan \/ Environment \/ subscribeScanEvents
           \/ unsubscribeScanEvents
  BY <1>3 DEF abortScan, Environment, subscribeScanEvents,
              unsubscribeScanEvents, stationVars
<1>4. CASE UNCHANGED vars
  BY <1>4 DEF vars, stationVars
<1> QED
  BY <1>1, <1>2, <1>3, <1>4 DEF Next

(* What ClientInterfaceImpl believes after an MLME event.                   *)
LEMMA BeliefAfter ==
    ASSUME NEW e \in Mlme, OnMlmeEvent(e)
    PROVE  /\ bssid' = IF Joined(e) THEN e.bss ELSE NoBss
           /\ is_associated' <=> Joined(e)
           /\ heard' = IF e.bss = NoBss THEN "nameless" ELSE "named"
<1>1. e.cmd \in MlmeCommand
  BY DEF Mlme
<1>2. CASE e.cmd \in {"connect", "associate"}
  BY <1>1, <1>2 DEF OnMlmeEvent, OnConnect, Associated, NotAssociated, Joined
<1>3. CASE e.cmd = "roam"
  BY <1>1, <1>3 DEF OnMlmeEvent, OnRoam, Associated, Joined
<1>4. CASE e.cmd \in {"disconnect", "disassociate"}
  BY <1>1, <1>4 DEF OnMlmeEvent, NotAssociated, Joined
<1> QED
  BY <1>1, <1>2, <1>3, <1>4 DEF MlmeCommand

(* Every step keeps the invariant, if no AP rejects an association.         *)
LEMMA LinkStep ==
    ASSUME "reject" \notin Faults
    PROVE  LinkInv /\ [Next]_vars => LinkInv'
<1> SUFFICES ASSUME LinkInv, [Next]_vars PROVE LinkInv'
  OBVIOUS
<1> USE DEF LinkInv
<1>1. CASE ~BroadcastHandler
  <2>1. PICK t \in Seq(Events) : Moves(t)
    BY <1>1, StepsMove
  <2>2. QueueOK'
    BY <2>1, MovesKeepQueue
  <2>3. /\ DOMAIN events' = 1..(Len(events) + Len(t))
        /\ DOMAIN events = 1..Len(events) /\ DOMAIN t = 1..Len(t)
        /\ Len(events) \in Nat /\ Len(t) \in Nat
        /\ \A i \in DOMAIN events : /\ i \in DOMAIN events'
                                    /\ events'[i] = events[i]
        /\ \A i \in DOMAIN t : /\ Len(events) + i \in DOMAIN events'
                               /\ events'[Len(events) + i] = t[i]
    BY <2>1, Concatenated DEF QueueOK, Moves
  <2>4. CASE link' = link /\ \A i \in DOMAIN t : ~IsMlme(t[i])
    <3>1. ASSUME NEW i \in DOMAIN events', IsMlme(events'[i])
          PROVE  i \in DOMAIN events /\ events[i] = events'[i]
      <4>1. CASE i <= Len(events)
        BY <2>3, <4>1
      <4>2. CASE i > Len(events)
        <5>1. i - Len(events) \in DOMAIN t /\ i = Len(events) + (i - Len(events))
          BY <2>3, <4>2
        <5> QED
          BY <2>3, <2>4, <3>1, <5>1
      <4> QED
        BY <2>3, <4>1, <4>2
    <3>2. LastNewsIsTrue'
      <4> SUFFICES ASSUME NEW i \in DOMAIN events', IsMlme(events'[i]),
                          \A j \in DOMAIN events' : j > i => ~IsMlme(events'[j])
                   PROVE  Fits(events'[i], link)
        BY <2>4 DEF LastNewsIsTrue, IsMlme, Fits, Joined, GetStatusCode
      <4>1. \A j \in DOMAIN events : j > i => ~IsMlme(events[j])
        BY <2>3
      <4> QED
        BY <3>1, <4>1 DEF LastNewsIsTrue
    <3>3. NoNews' => NoNews
      BY <2>3 DEF NoNews, IsMlme
    <3>4. AssociationTracksKernel'
      BY <1>1, <2>4, <3>3, BeliefChange DEF AssociationTracksKernel
    <3> QED
      BY <2>2, <3>2, <3>4
  <2>5. CASE \E i \in DOMAIN t : /\ IsMlme(t[i])
                                 /\ Fits(t[i], link')
                                 /\ \A j \in DOMAIN t : j > i => ~IsMlme(t[j])
    <3>1. PICK l \in DOMAIN t : /\ IsMlme(t[l])
                                /\ Fits(t[l], link')
                                /\ \A j \in DOMAIN t : j > l => ~IsMlme(t[j])
      BY <2>5
    <3>2. Len(events) + l \in DOMAIN events' /\ events'[Len(events) + l] = t[l]
      BY <2>3
    <3>3. ASSUME NEW i \in DOMAIN events', IsMlme(events'[i]),
                 \A j \in DOMAIN events' : j > i => ~IsMlme(events'[j])
          PROVE  i = Len(events) + l
      <4>1. ~(Len(events) + l > i)
        BY <3>1, <3>2, <3>3
      <4>2. ASSUME i > Len(events) + l PROVE FALSE
        <5>1. /\ i - Len(events) \in DOMAIN t
              /\ i = Len(events) + (i - Len(events))
              /\ i - Len(events) > l
          BY <2>3, <4>2
        <5> QED
          BY <2>3, <3>1, <3>3, <5>1
      <4> QED
        BY <2>3, <4>1, <4>2
    <3>4. LastNewsIsTrue'
      <4> SUFFICES ASSUME NEW i \in DOMAIN events', IsMlme(events'[i]),
                          \A j \in DOMAIN events' : j > i => ~IsMlme(events'[j])
                   PROVE  Fits(events'[i], link')
        BY DEF LastNewsIsTrue, IsMlme, Fits, Joined, GetStatusCode
      <4> QED
        BY <3>1, <3>2, <3>3
    <3>5. ~NoNews'
      BY <3>1, <3>2 DEF NoNews, IsMlme
    <3> QED
      BY <2>2, <3>4, <3>5 DEF AssociationTracksKernel
  <2> QED
    BY <2>1, <2>4, <2>5 DEF Moves, TellsOfLink
<1>2. CASE BroadcastHandler
  <2>1. /\ QueueOK'
        /\ events # <<>> /\ events' = Tail(events)
        /\ UNCHANGED <<kernel_scan, link, scan_event_handler>>
    BY <1>2, ReadKeepsQueue
  <2>2. /\ Head(events) = events[1] /\ events[1] \in Events
        /\ 1 \in DOMAIN events
        /\ DOMAIN events \subseteq Int
        /\ DOMAIN events' \subseteq Int
        /\ \A i \in DOMAIN events' : /\ i + 1 \in DOMAIN events
                                     /\ events'[i] = events[i + 1]
        /\ \A i \in DOMAIN events : i # 1 => i - 1 \in DOMAIN events'
    BY <2>1, HeadRead DEF QueueOK
  <2>3. ASSUME NEW i \in DOMAIN events, i # 1
        PROVE  i - 1 \in DOMAIN events' /\ events'[i - 1] = events[i]
    <3>1. i - 1 \in DOMAIN events' /\ (i - 1) + 1 = i
      BY <2>2, <2>3
    <3> QED
      BY <2>2, <3>1
  <2>4. LastNewsIsTrue'
    <3> SUFFICES ASSUME NEW i \in DOMAIN events', IsMlme(events'[i]),
                        \A j \in DOMAIN events' : j > i => ~IsMlme(events'[j])
                 PROVE  Fits(events'[i], link)
      BY <2>1 DEF LastNewsIsTrue, IsMlme, Fits, Joined, GetStatusCode
    <3>1. i + 1 \in DOMAIN events /\ events[i + 1] = events'[i]
      BY <2>2
    <3>2. ASSUME NEW j \in DOMAIN events, j > i + 1
          PROVE  ~IsMlme(events[j])
      <4>0. i \in 1..Len(events')
        BY <2>1 DEF QueueOK
      <4>1. j # 1 /\ j - 1 > i
        BY <2>2, <3>2, <4>0
      <4> QED
        BY <2>3, <4>1
    <3> QED
      BY <3>1, <3>2 DEF LastNewsIsTrue
  <2>5. CASE ~IsMlme(events[1])
    <3>1. UNCHANGED <<is_associated, bssid, heard>>
      BY <1>2, <2>2, <2>5
         DEF BroadcastHandler, OnScanResultsReady, stationVars, IsMlme
    <3>2. NoNews' => NoNews
      BY <2>3, <2>5 DEF NoNews, IsMlme
    <3> QED
      BY <2>1, <2>4, <3>1, <3>2 DEF AssociationTracksKernel
  <2>6. CASE IsMlme(events[1])
    <3>1. events[1] \in Mlme /\ OnMlmeEvent(events[1])
      BY <1>2, <2>2, <2>6
         DEF BroadcastHandler, Events, ScanEnd, IsMlme, MlmeCommand
    <3>2. /\ bssid' = IF Joined(events[1]) THEN events[1].bss ELSE NoBss
          /\ is_associated' <=> Joined(events[1])
          /\ heard' = IF events[1].bss = NoBss THEN "nameless" ELSE "named"
      BY <3>1, BeliefAfter
    <3>3. ASSUME NoNews'
          PROVE  Fits(events[1], link)
      <4>1. \A j \in DOMAIN events : j > 1 => ~IsMlme(events[j])
        BY <2>2, <2>3, <3>3 DEF NoNews, IsMlme
      <4> QED
        BY <2>2, <2>6, <4>1 DEF LastNewsIsTrue
    <3>4. ASSUME NoNews'
          PROVE  /\ is_associated' <=> link # NoBss
                 /\ bssid' = IF heard' = "named" THEN link ELSE NoBss
      BY <3>2, <3>3, <3>4 DEF Fits
    <3> QED
      BY <2>1, <2>4, <3>4 DEF AssociationTracksKernel
  <2> QED
    BY <2>5, <2>6
<1> QED
  BY <1>1, <1>2

(* If access points do not reject associations, then whenever an MLME event *)
(* has been handled and none waits, is_associated_ says whether the kernel  *)
(* has a link and bssid_ is its BSS, however late and in whatever company   *)
(* the events came; bssid_ is empty when the last event had no MAC address. *)
THEOREM AssociationIsTracked ==
    ASSUME "reject" \notin Faults
    PROVE  Spec => []AssociationTracksKernel
<1>1. Init => LinkInv
  BY QueueInit DEF Init, LinkInv, LastNewsIsTrue, AssociationTracksKernel
<1>2. LinkInv => AssociationTracksKernel
  BY DEF LinkInv
<1> QED
  BY <1>1, <1>2, LinkStep, PTL DEF Spec

---------------------------------------------------------------------------
(* The frequency.  A change of the link leaves news in the queue ...        *)
LEMMA NewsStays ==
    ASSUME "reject" \notin Faults, QueueOK, [Next]_vars, ~BroadcastHandler, NoNews'
    PROVE  NoNews /\ UNCHANGED link
<1>1. PICK t \in Seq(Events) : Moves(t)
  BY StepsMove
<1>2. /\ \A i \in DOMAIN events : i \in DOMAIN events' /\ events'[i] = events[i]
      /\ \A i \in DOMAIN t : /\ Len(events) + i \in DOMAIN events'
                             /\ events'[Len(events) + i] = t[i]
  BY <1>1, Concatenated DEF QueueOK, Moves
<1>3. \A i \in DOMAIN t : ~IsMlme(t[i])
  BY <1>2 DEF NoNews, IsMlme
<1>4. link' = link
  BY <1>1, <1>3 DEF Moves, TellsOfLink
<1> QED
  BY <1>2, <1>4 DEF NoNews, IsMlme

(* ... and an MLME event after which there is none told of the link.        *)
LEMMA LastTold ==
    ASSUME LinkInv, BroadcastHandler, IsMlme(events[1]), NoNews'
    PROVE  /\ events[1] \in Mlme /\ OnMlmeEvent(events[1])
           /\ Fits(events[1], link)
<1> USE DEF LinkInv
<1>1. events # <<>> /\ events' = Tail(events)
  BY ReadKeepsQueue
<1>2. /\ Head(events) = events[1] /\ events[1] \in Events /\ 1 \in DOMAIN events
      /\ DOMAIN events \subseteq Int
      /\ \A i \in DOMAIN events' : i + 1 \in DOMAIN events /\ events'[i] = events[i + 1]
      /\ \A i \in DOMAIN events : i # 1 => i - 1 \in DOMAIN events'
  BY <1>1, HeadRead DEF QueueOK
<1>3. ASSUME NEW j \in DOMAIN events, j > 1 PROVE ~IsMlme(events[j])
  <2>1. j # 1 /\ j \in Int /\ (j - 1) + 1 = j
    BY <1>2, <1>3
  <2>2. j - 1 \in DOMAIN events' /\ events'[j - 1] = events[j]
    BY <1>2, <2>1
  <2> QED
    BY <2>2 DEF NoNews, IsMlme
<1>4. events[1] \in Mlme /\ OnMlmeEvent(events[1])
  BY <1>2 DEF BroadcastHandler, Events, ScanEnd, IsMlme, MlmeCommand
<1> QED
  BY <1>2, <1>3, <1>4 DEF LastNewsIsTrue

(* Only the handlers of MLME events look for a frequency.                   *)
LEMMA FrequencyChange ==
    ASSUME [Next]_vars, ~BroadcastHandler
    PROVE  UNCHANGED <<associate_freq, refreshed>>
<1>1. ASSUME NEW res \in {"ok", "error", "enodev"}, scan(res)
      PROVE  UNCHANGED <<associate_freq, refreshed>>
  BY <1>1 DEF scan, stationVars
<1>2. ASSUME NEW mac \in Macs \cup {BadMac}, NEW done \in 0..3,
             setMacAddress(mac, done)
      PROVE  UNCHANGED <<associate_freq, refreshed>>
  BY <1>2 DEF setMacAddress, stationVars
<1>3. CASE \/ abortScan \/ Environment \/ subscribeScanEvents
           \/ unsubscribeScanEvents
  BY <1>3 DEF abortScan, Environment, subscribeScanEvents,
              unsubscribeScanEvents, stationVars
<1>4. CASE UNCHANGED vars
  BY <1>4 DEF vars, stationVars
<1> QED
  BY <1>1, <1>2, <1>3, <1>4 DEF Next

(* What they find is the BSS of the kernel's link, if there is one.         *)
LEMMA FrequencyAfter ==
    ASSUME NEW e \in Mlme, OnMlmeEvent(e), is_associated', refreshed', link # NoBss
    PROVE  associate_freq' = link
<1>1. e.cmd \in MlmeCommand
  BY DEF Mlme
<1>2. CASE NotAssociated
  BY <1>2 DEF NotAssociated
<1>3. CASE RefreshAssociateFreq
  BY <1>3 DEF RefreshAssociateFreq
<1> QED
  BY <1>1, <1>2, <1>3 DEF OnMlmeEvent, OnConnect, OnRoam, Associated, MlmeCommand

(* Every step keeps the frequency right.                                    *)
LEMMA FrequencyStep ==
    ASSUME "reject" \notin Faults, LinkInv, FrequencySettles, [Next]_vars
    PROVE  FrequencySettles'
<1> USE DEF LinkInv
<1>1. CASE ~BroadcastHandler
  <2>1. UNCHANGED <<is_associated, bssid, heard, associate_freq, refreshed>>
    BY <1>1, BeliefChange, FrequencyChange
  <2>2. NoNews' => NoNews /\ UNCHANGED link
    BY <1>1, NewsStays
  <2> QED
    BY <2>1, <2>2 DEF FrequencySettles
<1>2. CASE BroadcastHandler /\ ~IsMlme(events[1])
  <2>1. /\ events # <<>> /\ events' = Tail(events) /\ UNCHANGED link
        /\ events \in Seq(Events) /\ Head(events) = events[1]
    BY <1>2, ReadKeepsQueue, HeadRead DEF QueueOK
  <2>2. UNCHANGED <<is_associated, heard, associate_freq, refreshed>>
    BY <1>2, <2>1 DEF BroadcastHandler, OnScanResultsReady, stationVars, IsMlme
  <2>3. NoNews' => NoNews
    <3>1. ASSUME NEW i \in DOMAIN events, i # 1
          PROVE  i - 1 \in DOMAIN events' /\ events'[i - 1] = events[i]
      <4>1. i \in Int /\ (i - 1) + 1 = i
        BY <2>1
      <4> QED
        BY <2>1, <3>1, <4>1, HeadRead
    <3> QED
      BY <1>2, <3>1 DEF NoNews, IsMlme
  <2> QED
    BY <2>1, <2>2, <2>3 DEF FrequencySettles
<1>3. CASE BroadcastHandler /\ IsMlme(events[1])
  <2> SUFFICES ASSUME NoNews', is_associated', refreshed'
               PROVE  associate_freq' = link
    BY <1>3, ReadKeepsQueue DEF FrequencySettles
  <2>1. /\ events[1] \in Mlme /\ OnMlmeEvent(events[1])
        /\ Fits(events[1], link)
    BY <1>3, LastTold
  <2>2. link # NoBss
    BY <2>1, BeliefAfter DEF Fits
  <2> QED
    BY <2>1, <2>2, FrequencyAfter
<1> QED
  BY <1>1, <1>2, <1>3

(* If access points do not reject associations: once the last MLME event is *)
(* handled, the frequency SignalPoll answers with is that of the BSS the    *)
(* kernel is associated with, unless the scan dump for that event failed.   *)
(* The dump shows the kernel as it is now, not as it was when it sent the   *)
(* event; that is why the last event is enough.                             *)
THEOREM FrequencyIsRight ==
    ASSUME "reject" \notin Faults
    PROVE  Spec => []FrequencySettles
<1>1. Init => LinkInv /\ FrequencySettles
  BY QueueInit DEF Init, LinkInv, LastNewsIsTrue, AssociationTracksKernel, FrequencySettles
<1>2. LinkInv /\ FrequencySettles /\ [Next]_vars => LinkInv' /\ FrequencySettles'
  BY LinkStep, FrequencyStep
<1> QED
  BY <1>1, <1>2, PTL DEF Spec

---------------------------------------------------------------------------
(* The types.  What ClientInterfaceImpl keeps is a BSS of some event.       *)
LEMMA TypeStep ==
    ASSUME TypeOK, [Next]_vars
    PROVE  TypeOK'
<1> DEFINE StationOK == /\ is_associated \in BOOLEAN /\ bssid \in BSS \cup {NoBss}
                        /\ associate_freq \in BSS \cup {NoBss} /\ refreshed \in BOOLEAN
                        /\ interface_mac_addr \in Macs
           ScannerOK == /\ supports_random_mac_oneshot_scan \in BOOLEAN
                        /\ scan_started \in BOOLEAN /\ scan_event_handler \in BOOLEAN
           RestOK == /\ wifi_up \in BOOLEAN /\ kernel_mac \in Macs
                     /\ heard \in {"nothing", "named", "nameless"}
                     /\ awaited \in BOOLEAN /\ crashed \in BOOLEAN
<1>1. QueueOK /\ StationOK /\ ScannerOK /\ RestOK
  BY DEF TypeOK, QueueOK, Events
<1>2. QueueOK'
  BY <1>1, StepsMove, MovesKeepQueue, ReadKeepsQueue
<1> SUFFICES StationOK' /\ ScannerOK' /\ RestOK'
  BY <1>2 DEF TypeOK, QueueOK, Events
<1>3. ASSUME NEW res \in {"ok", "error", "enodev"}, scan(res)
      PROVE  StationOK' /\ ScannerOK' /\ RestOK'
  BY <1>1, <1>3 DEF scan, Scan, stationVars
<1>4. ASSUME NEW mac \in Macs \cup {BadMac}, NEW done \in 0..3,
             setMacAddress(mac, done)
      PROVE  StationOK' /\ ScannerOK' /\ RestOK'
  <2>1. StationOK' /\ ScannerOK'
    BY <1>1, <1>4 DEF setMacAddress, stationVars, scannerVars
  <2>2. wifi_up' \in BOOLEAN /\ kernel_mac' \in Macs
    <3>1. CASE done = 0
      BY <1>1, <1>4, <3>1 DEF setMacAddress, kernelVars
    <3>2. CASE done # 0
      <4>1. mac \in Macs
        BY <1>4, <3>2 DEF setMacAddress, StepsDone
      <4> QED
        BY <1>1, <1>4, <3>2, <4>1 DEF setMacAddress
    <3> QED
      BY <3>1, <3>2
  <2> QED
    BY <1>1, <1>4, <2>1, <2>2 DEF setMacAddress
<1>s. (UNCHANGED stationVars) => StationOK'
  BY <1>1 DEF stationVars
<1>c. (UNCHANGED scannerVars) => ScannerOK'
  BY <1>1 DEF scannerVars
<1>r. (UNCHANGED <<wifi_up, kernel_mac, heard, awaited, crashed>>) => RestOK'
  BY <1>1
<1> HIDE DEF StationOK, ScannerOK, RestOK
<1>5. CASE subscribeScanEvents \/ unsubscribeScanEvents
  <2>1. StationOK'
    BY <1>5, <1>s DEF subscribeScanEvents, unsubscribeScanEvents
  <2>2. ScannerOK'
    BY <1>1, <1>5 DEF subscribeScanEvents, unsubscribeScanEvents, ScannerOK
  <2>3. RestOK'
    BY <1>1, <1>5 DEF subscribeScanEvents, unsubscribeScanEvents, kernelVars, RestOK
  <2> QED
    BY <2>1, <2>2, <2>3
<1>6. CASE abortScan
  <2>1. UNCHANGED <<stationVars, scannerVars, heard, awaited, crashed>>
    BY <1>6 DEF abortScan
  <2>2. UNCHANGED <<wifi_up, kernel_mac>>
    BY <1>6 DEF abortScan, AbortScan, kernelVars
  <2> QED
    BY <2>1, <2>2, <1>s, <1>c, <1>r
<1>7. CASE Environment
  <2>1. wifi_up' \in BOOLEAN /\ kernel_mac' \in Macs
    BY <1>1, <1>7 DEF Environment, KernelStep, Associates, FailsToAssociate, Roams, LosesLink,
                      OtherScans, ScanEnds, ComesUp, RestOK
  <2>2. UNCHANGED <<stationVars, scannerVars, heard, awaited, crashed>>
    BY <1>7 DEF Environment
  <2>3. RestOK'
    BY <1>1, <2>1, <2>2 DEF RestOK
  <2> QED
    BY <2>2, <2>3, <1>s, <1>c
<1>8. CASE BroadcastHandler
  <2>1. Head(events) \in Events
    BY <1>1, <1>8, HeadRead DEF BroadcastHandler, QueueOK
  <2>2. UNCHANGED <<scan_event_handler, supports_random_mac_oneshot_scan, wifi_up, kernel_mac,
                    crashed>>
    BY <1>8 DEF BroadcastHandler
  <2>3. CASE Head(events).cmd \in MlmeCommand
    <3>1. Head(events) \in Mlme /\ OnMlmeEvent(Head(events))
      BY <1>8, <2>1, <2>3 DEF BroadcastHandler, Events, ScanEnd, MlmeCommand
    <3>2. is_associated' \in BOOLEAN /\ bssid' \in BSS \cup {NoBss}
      <4>1. Head(events).bss \in BSS \cup {NoBss} /\ Head(events).cmd \in MlmeCommand
        BY <3>1 DEF Mlme
      <4> QED
        BY <3>1, <4>1 DEF OnMlmeEvent, OnConnect, OnRoam, Associated, NotAssociated, MlmeCommand
    <3>3. associate_freq' \in BSS \cup {NoBss} /\ refreshed' \in BOOLEAN
      <4>1. RefreshAssociateFreq \/ UNCHANGED <<associate_freq, refreshed>>
        BY <2>3, <3>1 DEF OnMlmeEvent, OnConnect, OnRoam, Associated, NotAssociated, MlmeCommand
      <4> QED
        BY <1>1, <4>1 DEF RefreshAssociateFreq, QueueOK, StationOK
    <3>4. /\ heard' \in {"nothing", "named", "nameless"}
          /\ UNCHANGED <<interface_mac_addr, scan_started, awaited>>
      BY <3>1 DEF OnMlmeEvent
    <3>5. StationOK'
      BY <1>1, <3>2, <3>3, <3>4 DEF StationOK
    <3>6. ScannerOK' /\ RestOK'
      BY <1>1, <2>2, <3>4 DEF ScannerOK, RestOK
    <3> QED
      BY <3>5, <3>6
  <2>4. CASE Head(events).cmd \notin MlmeCommand
    <3>1. OnScanResultsReady(Head(events).owner)
      BY <1>8, <2>4 DEF BroadcastHandler
    <3>2. /\ scan_started' = FALSE /\ awaited' \in BOOLEAN
          /\ UNCHANGED stationVars /\ UNCHANGED heard
      BY <3>1 DEF OnScanResultsReady
    <3>3. ScannerOK'
      BY <1>1, <2>2, <3>2 DEF ScannerOK
    <3>4. RestOK'
      BY <1>1, <2>2, <3>2 DEF RestOK
    <3> QED
      BY <3>2, <3>3, <3>4, <1>s
  <2> QED
    BY <2>3, <2>4
<1>9. CASE UNCHANGED vars
  BY <1>9, <1>s, <1>c, <1>r DEF vars, kernelVars
<1> QED
  BY <1>3, <1>4, <1>5, <1>6, <1>7, <1>8, <1>9 DEF Next

(* Type correctness: the queue holds events of the kernel only, and what    *)
(* the handlers keep of them is a BSS or none, whatever a packet lacks and  *)
(* whatever setMacAddress is given.                                         *)
THEOREM TypeCorrect == Spec => []TypeOK
<1>1. Init => TypeOK
  <2> SUFFICES ASSUME Init PROVE TypeOK
    OBVIOUS
  <2>1. events \in Seq(ScanEnd \cup Mlme)
    BY DEF Init
  <2>2. /\ is_associated \in BOOLEAN /\ refreshed \in BOOLEAN /\ scan_started \in BOOLEAN
        /\ scan_event_handler \in BOOLEAN /\ awaited \in BOOLEAN /\ crashed \in BOOLEAN
        /\ heard \in {"nothing", "named", "nameless"}
    BY DEF Init
  <2>3. /\ bssid \in BSS \cup {NoBss} /\ associate_freq \in BSS \cup {NoBss}
        /\ interface_mac_addr \in Macs /\ kernel_mac \in Macs /\ kernel_scan \in Owner
        /\ link \in BSS \cup {NoBss}
    BY DEF Init, Owner
  <2>4. supports_random_mac_oneshot_scan \in BOOLEAN /\ wifi_up \in BOOLEAN
    BY DEF Init
  <2> QED
    BY <2>1, <2>2, <2>3, <2>4 DEF TypeOK
<1>2. TypeOK /\ [Next]_vars => TypeOK'
  BY TypeStep
<1> QED
  BY <1>1, <1>2, PTL DEF Spec
=============================================================================
