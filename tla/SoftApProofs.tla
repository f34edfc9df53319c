---------------------------- MODULE SoftApProofs ----------------------------
(***************************************************************************)
(* The number of stations an ApInterfaceImpl counts, against the number the *)
(* kernel has.  The two agree only when no event waits, so the invariant    *)
(* speaks of the events in between: it keeps the number of stations the     *)
(* kernel had at each of them.                                              *)
(***************************************************************************)
EXTENDS SoftAp, Integers, TLAPS

Event == {"NEW_STATION", "DEL_STATION"}

(* h is how the number of stations went: h[0] before the first event that   *)
(* waits, h[i] after the i-th.  Since each event changes it by one, the     *)
(* last number and the events determine the others.                         *)
History(h) ==
    /\ h \in [0..Len(events) -> Nat]
    /\ h[Len(events)] = stations
    /\ \A i \in 1..Len(events) :
          /\ events[i] = "NEW_STATION" => h[i] = h[i - 1] + 1
          /\ events[i] = "DEL_STATION" => h[i - 1] = h[i] + 1

(* The hotspot was empty at an event that is still to be read.              *)
EmptyAhead(h) == \E j \in 0..Len(events) : h[j] = 0

(* The object counts no station too many; it has the right number unless    *)
(* the first time it can get it right is still ahead; and so the callback.  *)
Accounts(h) ==
    /\ number_of_associated_stations <= h[0]
    /\ "object" \in emptied =>
          number_of_associated_stations = h[0] \/ EmptyAhead(h)
    /\ ap_interface_event_callback =>
          /\ told \in {0, number_of_associated_stations}
          /\ "callback" \in emptied =>
                \/ told = h[0] /\ number_of_associated_stations = h[0]
                \/ EmptyAhead(h)

(* The inductive invariant.                                                 *)
Counted == \E h \in [0..Len(events) -> Nat] : History(h) /\ (impl => Accounts(h))

IInv == TypeOK /\ Counted

---------------------------------------------------------------------------
(* The length of a queue that gets a tail.                                  *)
LEMMA Concatenated ==
    ASSUME NEW s \in Seq(Event), NEW t \in Seq(Event)
    PROVE  Len(s \o t) = Len(s) + Len(t)
OBVIOUS

(* g continues h over the events a step adds.                               *)
Continues(g, h) ==
    /\ History(g)'
    /\ Len(events') \in Nat /\ Len(events) <= Len(events')
    /\ \A j \in 0..Len(events) : g[j] = h[j]

(* A step without events.                                                   *)
LEMMA Unmoved ==
    ASSUME TypeOK, NEW h, History(h), UNCHANGED <<stations, events>>
    PROVE  Continues(h, h)
BY DEF TypeOK, Continues, History

(* A station joins or leaves.                                               *)
LEMMA OneMore ==
    ASSUME TypeOK, NEW h, History(h), NEW e \in Event, stations' \in Nat,
           events' = Append(events, e),
           e = "NEW_STATION" => stations' = stations + 1,
           e = "DEL_STATION" => stations = stations' + 1
    PROVE  \E g : Continues(g, h)
<1> DEFINE n == Len(events)
<1> PICK g : g = [j \in 0..(n + 1) |-> IF j <= n THEN h[j] ELSE stations']
  OBVIOUS
<1>1. /\ n \in Nat /\ Len(events') = n + 1
      /\ \A i \in 1..n : events'[i] = events[i]
      /\ events'[n + 1] = e
  BY DEF TypeOK, Event
<1>2. h \in [0..n -> Nat] /\ h[n] = stations
  BY DEF History
<1>3. g \in [0..(n + 1) -> Nat] /\ g[n + 1] = stations'
  BY <1>1, <1>2
<1>4. \A j \in 0..n : g[j] = h[j]
  BY <1>1
<1>5. ASSUME NEW i \in 1..(n + 1)
      PROVE  /\ events'[i] = "NEW_STATION" => g[i] = g[i - 1] + 1
             /\ events'[i] = "DEL_STATION" => g[i - 1] = g[i] + 1
  <2>1. CASE i = n + 1
    BY <1>1, <1>2, <1>3, <1>4, <2>1
  <2>2. CASE i \in 1..n
    <3>1. i \in 0..n /\ i - 1 \in 0..n
      BY <1>1, <2>2
    <3>2. g[i] = h[i] /\ g[i - 1] = h[i - 1] /\ events'[i] = events[i]
      BY <1>1, <1>4, <2>2, <3>1
    <3> QED
      BY <2>2, <3>2 DEF History
  <2> QED
    BY <1>1, <2>1, <2>2
<1>6. History(g)'
  BY <1>1, <1>3, <1>5 DEF History
<1> QED
  BY <1>1, <1>4, <1>6 DEF Continues

(* All stations are gone.                                                   *)
LEMMA NoneLeft ==
    ASSUME TypeOK, NEW h, History(h), Down
    PROVE  \E g : Continues(g, h)
<1> DEFINE n == Len(events)
           t == [i \in 1..stations |-> "DEL_STATION"]
<1> PICK g : g = [j \in 0..(n + stations) |->
                    IF j <= n THEN h[j] ELSE n + stations - j]
  OBVIOUS
<1>1. stations \in Nat /\ n \in Nat
  BY SoftApAssumption DEF TypeOK
<1>2. t \in Seq(Event) /\ Len(t) = stations
  BY <1>1 DEF Event
<1>3. events' = events \o t
  BY DEF Down
<1> HIDE DEF t
<1>s. events \in Seq(Event)
  BY DEF TypeOK, Event
<1>4. Len(events') = n + stations
  <2>1. Len(events \o t) = Len(events) + Len(t)
    BY <1>2, <1>s, Concatenated
  <2> QED
    BY <1>2, <1>3, <2>1
<1>5. \A i \in 1..n : events'[i] = events[i]
  BY <1>1, <1>2, <1>3, <1>s
<1>6. \A i \in (n + 1)..(n + stations) : events'[i] = "DEL_STATION"
  <2>1. \A i \in 1..stations : t[i] = "DEL_STATION"
    BY DEF t
  <2> QED
    BY <1>1, <1>2, <1>3, <1>s, <2>1
<1>7. h \in [0..n -> Nat] /\ h[n] = stations
  BY DEF History
<1>8. g \in [0..(n + stations) -> Nat] /\ g[n + stations] = 0
  BY <1>1, <1>7
<1>9. /\ \A j \in 0..n : g[j] = h[j]
      /\ \A j \in n..(n + stations) : g[j] = n + stations - j
  BY <1>1, <1>7
<1>10. ASSUME NEW i \in 1..(n + stations)
       PROVE  /\ events'[i] = "NEW_STATION" => g[i] = g[i - 1] + 1
              /\ events'[i] = "DEL_STATION" => g[i - 1] = g[i] + 1
  <2>1. CASE i \in (n + 1)..(n + stations)
    <3>1. i \in n..(n + stations) /\ i - 1 \in n..(n + stations)
      BY <1>1, <2>1
    <3>2. g[i] = n + stations - i /\ g[i - 1] = n + stations - (i - 1)
      BY <1>9, <3>1
    <3> QED
      BY <1>1, <1>6, <2>1, <3>2
  <2>2. CASE i \in 1..n
    <3>1. i \in 0..n /\ i - 1 \in 0..n
      BY <1>1, <2>2
    <3>2. g[i] = h[i] /\ g[i - 1] = h[i - 1] /\ events'[i] = events[i]
      BY <1>5, <1>9, <2>2, <3>1
    <3> QED
      BY <2>2, <3>2 DEF History
  <2> QED
    BY <1>1, <2>1, <2>2
<1>11. History(g)'
  BY <1>4, <1>8, <1>10 DEF History, Down
<1> QED
  BY <1>1, <1>4, <1>9, <1>11 DEF Continues

---------------------------------------------------------------------------
(* What continues h has a time ahead when h has one, or when the hotspot is *)
(* empty now.                                                               *)
LEMMA AheadContinues ==
    ASSUME TypeOK, NEW g, NEW h, Continues(g, h)
    PROVE  /\ g[0] = h[0]
           /\ EmptyAhead(h) => EmptyAhead(g)'
           /\ stations' = 0 => EmptyAhead(g)'
<1>1. Len(events) \in Nat
  BY DEF TypeOK
<1>2. Len(events') \in Nat /\ Len(events) <= Len(events')
  BY DEF Continues
<1>3. g[0] = h[0]
  BY <1>1 DEF Continues
<1>4. EmptyAhead(h) => EmptyAhead(g)'
  BY <1>1, <1>2 DEF Continues, EmptyAhead
<1>5. stations' = 0 => EmptyAhead(g)'
  BY <1>2 DEF Continues, EmptyAhead, History
<1> QED
  BY <1>3, <1>4, <1>5

(* Steps that read no event keep what the object counts.                    *)
LEMMA StillCounted ==
    ASSUME TypeOK, NEW g, NEW h, Continues(g, h), impl => Accounts(h), impl, impl',
           UNCHANGED <<number_of_associated_stations>>,
           \/ /\ ap_interface_event_callback' => ap_interface_event_callback
              /\ told' = told
              /\ Emptied({})
           \/ told' = 0 /\ Emptied({"callback"})
    PROVE  Accounts(g)'
<1>1. /\ g[0] = h[0]
      /\ EmptyAhead(h) => EmptyAhead(g)'
      /\ stations' = 0 => EmptyAhead(g)'
  BY AheadContinues
<1>2. Accounts(h)
  OBVIOUS
<1>3. EmptyAhead(g)' \/ emptied' \subseteq emptied
  BY <1>1 DEF Emptied
<1>4. \/ /\ ap_interface_event_callback' => ap_interface_event_callback
         /\ told' = told
      \/ told' = 0 /\ ("callback" \in emptied' => EmptyAhead(g)')
  BY <1>1 DEF Emptied
<1> QED
  BY <1>1, <1>2, <1>3, <1>4 DEF Accounts

(* A new object counts from zero.                                           *)
LEMMA CountedFromZero ==
    ASSUME TypeOK, NEW g, NEW h, Continues(g, h), createApInterface
    PROVE  Accounts(g)'
<1>1. /\ g[0] = h[0]
      /\ stations' = 0 => EmptyAhead(g)'
  BY AheadContinues
<1>2. g[0] \in Nat
  <2>1. History(g)' /\ Len(events') \in Nat
    BY DEF Continues
  <2> QED
    BY <2>1 DEF History
<1>3. "object" \in emptied' => EmptyAhead(g)'
  BY <1>1 DEF createApInterface, Emptied
<1> QED
  BY <1>2, <1>3 DEF Accounts, createApInterface

(* Reading an event moves on in the history.                                *)
LEMMA MovesOn ==
    ASSUME TypeOK, NEW h, History(h), BroadcastHandler
    PROVE  \E g : /\ History(g)'
                  /\ g[0] = h[1] /\ h[0] \in Nat /\ h[1] \in Nat
                  /\ h[0] # 0 /\ EmptyAhead(h) => EmptyAhead(g)'
                  /\ h[1] = 0 => EmptyAhead(g)'
                  /\ Head(events) = "NEW_STATION" => h[1] = h[0] + 1
                  /\ Head(events) = "DEL_STATION" => h[0] = h[1] + 1
                  /\ Head(events) \in Event
<1> DEFINE n == Len(events)
<1> PICK g : g = [j \in 0..(n - 1) |-> h[j + 1]]
  OBVIOUS
<1>1. events \in Seq(Event) /\ events # <<>> /\ events' = Tail(events)
  BY DEF TypeOK, Event, BroadcastHandler
<1>2. /\ n \in Nat /\ n >= 1 /\ Len(events') = n - 1
      /\ \A i \in 1..(n - 1) : events'[i] = events[i + 1]
      /\ Head(events) = events[1] /\ Head(events) \in Event
  BY <1>1
<1>3. h \in [0..n -> Nat] /\ h[n] = stations
  BY DEF History
<1>4. g \in [0..(n - 1) -> Nat] /\ g[n - 1] = stations
  BY <1>2, <1>3
<1>5. \A j \in 0..(n - 1) : g[j] = h[j + 1]
  OBVIOUS
<1>6. ASSUME NEW i \in 1..(n - 1)
      PROVE  /\ events'[i] = "NEW_STATION" => g[i] = g[i - 1] + 1
             /\ events'[i] = "DEL_STATION" => g[i - 1] = g[i] + 1
  <2>1. i + 1 \in 1..n /\ i \in 0..(n - 1) /\ i - 1 \in 0..(n - 1)
    BY <1>2
  <2>2. g[i] = h[i + 1] /\ g[i - 1] = h[(i + 1) - 1]
    BY <1>2, <1>5, <2>1
  <2> QED
    BY <1>2, <2>1, <2>2 DEF History
<1>7. History(g)'
  BY <1>2, <1>4, <1>6 DEF History, BroadcastHandler
<1>8. h[0] # 0 /\ EmptyAhead(h) => EmptyAhead(g)'
  <2> SUFFICES ASSUME h[0] # 0, NEW j \in 0..n, h[j] = 0
               PROVE  EmptyAhead(g)'
    BY DEF EmptyAhead
  <2>1. j - 1 \in 0..(n - 1) /\ (j - 1) + 1 = j
    BY <1>2
  <2>2. g[j - 1] = 0
    BY <1>5, <2>1
  <2> QED
    BY <1>2, <2>1, <2>2 DEF EmptyAhead
<1>9. g[0] = h[1] /\ h[0] \in Nat /\ h[1] \in Nat
  BY <1>2, <1>3, <1>5
<1>10. h[1] = 0 => EmptyAhead(g)'
  BY <1>2, <1>9 DEF EmptyAhead
<1>11. /\ Head(events) = "NEW_STATION" => h[1] = h[0] + 1
       /\ Head(events) = "DEL_STATION" => h[0] = h[1] + 1
  <2>1. 1 \in 1..n
    BY <1>2
  <2> QED
    BY <1>2, <2>1 DEF History
<1> QED
  BY <1>2, <1>7, <1>8, <1>9, <1>10, <1>11

(* The handler keeps account of the event it reads.                         *)
LEMMA HandlerCounts ==
    ASSUME TypeOK, Counted, BroadcastHandler
    PROVE  Counted'
<1>1. PICK h : History(h) /\ (impl => Accounts(h))
  BY DEF Counted
<1>2. PICK g : /\ History(g)'
               /\ g[0] = h[1] /\ h[0] \in Nat /\ h[1] \in Nat
               /\ h[0] # 0 /\ EmptyAhead(h) => EmptyAhead(g)'
               /\ h[1] = 0 => EmptyAhead(g)'
               /\ Head(events) = "NEW_STATION" => h[1] = h[0] + 1
               /\ Head(events) = "DEL_STATION" => h[0] = h[1] + 1
               /\ Head(events) \in Event
  BY <1>1, MovesOn
<1>3. impl' => Accounts(g)'
  <2> SUFFICES ASSUME impl'
               PROVE  Accounts(g)'
    OBVIOUS
  <2>1. Accounts(h) /\ OnStationEvent(Head(events))
    BY <1>1 DEF BroadcastHandler
  <2>2. UNCHANGED <<ap_interface_event_callback, emptied>>
    BY DEF BroadcastHandler
  <2>3. number_of_associated_stations \in Nat /\ told \in Nat
    BY DEF TypeOK
  <2>4. CASE Head(events) = "NEW_STATION"
    BY <1>2, <2>1, <2>2, <2>3, <2>4 DEF Accounts, OnStationEvent
  <2>5. CASE Head(events) = "DEL_STATION" /\ number_of_associated_stations > 0
    BY <1>2, <2>1, <2>2, <2>3, <2>5 DEF Accounts, OnStationEvent
  <2>6. CASE Head(events) = "DEL_STATION" /\ number_of_associated_stations = 0
    BY <1>2, <2>1, <2>2, <2>3, <2>6 DEF Accounts, OnStationEvent
  <2> QED
    BY <1>2, <2>3, <2>4, <2>5, <2>6 DEF Event
<1> QED
  BY <1>2, <1>3 DEF Counted, History

---------------------------------------------------------------------------
(* Every step continues the history, but the handler's.                     *)
LEMMA HistoryContinues ==
    ASSUME TypeOK, NEW h, History(h), [Next]_vars, ~BroadcastHandler
    PROVE  \E g : Continues(g, h)
<1>1. CASE UNCHANGED <<stations, events>>
  BY <1>1, Unmoved
<1>2. CASE Down
  BY <1>2, NoneLeft
<1>3. CASE StationJoins
  BY <1>3, OneMore DEF StationJoins, TypeOK, Event
<1>4. CASE StationLeaves
  BY <1>4, OneMore DEF StationLeaves, TypeOK, Event
<1>5. CASE createApInterface
  BY <1>1, <1>5 DEF createApInterface, kernelVars
<1>6. CASE tearDownApInterface
  BY <1>1, <1>2, <1>6 DEF tearDownApInterface
<1>7. CASE \E ok \in BOOLEAN : startHostapd(ok)
  BY <1>1, <1>7 DEF startHostapd
<1>8. CASE stopHostapd
  BY <1>1, <1>2, <1>8 DEF stopHostapd, StopHostapd, kernelVars
<1>9. CASE HostapdConfigures
  BY <1>1, <1>9 DEF HostapdConfigures
<1>10. CASE UNCHANGED vars
  BY <1>1, <1>10 DEF vars, kernelVars
<1> QED
  BY <1>3, <1>4, <1>5, <1>6, <1>7, <1>8, <1>9, <1>10 DEF Next

(* The types.                                                               *)
LEMMA TypeStep ==
    ASSUME TypeOK, [Next]_vars
    PROVE  TypeOK'
<1> USE SoftApAssumption
<1> DEFINE Queue == Seq({"NEW_STATION", "DEL_STATION"})
<1>1. ASSUME Down PROVE events' \in Queue /\ stations' \in 0..MaxStations
  BY <1>1 DEF Down, TypeOK
<1>e. ASSUME NEW b, Emptied(b) PROVE emptied' \subseteq {"object", "callback"}
  BY <1>e DEF Emptied, TypeOK
<1>2. CASE createApInterface
  BY <1>2, <1>e DEF TypeOK, createApInterface, kernelVars
<1>3. CASE tearDownApInterface
  <2>1. events' \in Queue /\ stations' \in 0..MaxStations /\ up' \in BOOLEAN
    BY <1>1, <1>3 DEF tearDownApInterface, TypeOK, Down
  <2> QED
    BY <1>3, <1>e, <2>1 DEF TypeOK, tearDownApInterface, binderVars
<1>4. ASSUME NEW ok \in BOOLEAN, startHostapd(ok) PROVE TypeOK'
  <2>1. /\ hostapd' \in {"stopped", "starting", "running"}
        /\ ap_interface_event_callback' \in BOOLEAN
        /\ told' \in Nat
    <3>1. CASE ok
      BY <1>4, <3>1 DEF startHostapd, TypeOK
    <3>2. CASE ~ok
      BY <1>4, <3>2 DEF startHostapd, binderVars, TypeOK
    <3> QED
      BY <3>1, <3>2
  <2> QED
    BY <1>4, <1>e, <2>1 DEF TypeOK, startHostapd
<1>5. CASE stopHostapd
  <2>1. /\ events' \in Queue /\ stations' \in 0..MaxStations
        /\ hostapd' \in {"stopped", "starting", "running"}
        /\ up' \in BOOLEAN /\ mode' \in {"station", "ap"}
    BY <1>1, <1>5 DEF stopHostapd, StopHostapd, kernelVars, TypeOK, Down
  <2> QED
    BY <1>5, <1>e, <2>1 DEF TypeOK, stopHostapd
<1>6. CASE BroadcastHandler
  <2>1. events' \in Seq({"NEW_STATION", "DEL_STATION"})
    BY <1>6 DEF TypeOK, BroadcastHandler
  <2>2. number_of_associated_stations' \in Nat /\ told' \in Nat
    <3>1. UNCHANGED <<number_of_associated_stations, told>>
            \/ OnStationEvent(Head(events))
      BY <1>6 DEF BroadcastHandler
    <3>2. Head(events) \in {"NEW_STATION", "DEL_STATION"}
      BY <1>6 DEF TypeOK, BroadcastHandler
    <3> QED
      BY <3>1, <3>2 DEF TypeOK, OnStationEvent
  <2> QED
    BY <1>6, <2>1, <2>2 DEF TypeOK, BroadcastHandler
<1>7. CASE HostapdConfigures
  BY <1>7 DEF TypeOK, HostapdConfigures, binderVars
<1>8. CASE StationJoins
  BY <1>8 DEF TypeOK, StationJoins, binderVars, Emptied
<1>9. CASE StationLeaves
  BY <1>9 DEF TypeOK, StationLeaves, binderVars, Emptied
<1>10. CASE UNCHANGED vars
  BY <1>10 DEF TypeOK, vars, binderVars, kernelVars
<1> QED
  BY <1>2, <1>3, <1>4, <1>5, <1>6, <1>7, <1>8, <1>9, <1>10 DEF Next

(* The account is kept.                                                     *)
LEMMA CountedStep ==
    ASSUME IInv, [Next]_vars
    PROVE  Counted'
<1>1. CASE BroadcastHandler
  BY <1>1, HandlerCounts DEF IInv
<1>2. CASE ~BroadcastHandler
  <2>1. PICK h : History(h) /\ (impl => Accounts(h))
    BY DEF IInv, Counted
  <2>2. PICK g : Continues(g, h)
    BY <1>2, <2>1, HistoryContinues DEF IInv
  <2>3. impl' => Accounts(g)'
    <3> SUFFICES ASSUME impl'
                 PROVE  Accounts(g)'
      OBVIOUS
    <3>1. CASE createApInterface
      BY <2>2, <3>1, CountedFromZero DEF IInv
    <3>2. CASE tearDownApInterface
      BY <3>2 DEF tearDownApInterface
    <3>3. ASSUME impl, UNCHANGED number_of_associated_stations,
                 \/ /\ ap_interface_event_callback' => ap_interface_event_callback
                    /\ told' = told
                    /\ Emptied({})
                 \/ told' = 0 /\ Emptied({"callback"})
          PROVE  Accounts(g)'
      BY <2>1, <2>2, <3>3, StillCounted DEF IInv
    <3>4. ASSUME NEW ok \in BOOLEAN, startHostapd(ok) PROVE Accounts(g)'
      BY <3>3, <3>4 DEF startHostapd, binderVars
    <3>5. CASE stopHostapd
      BY <3>3, <3>5 DEF stopHostapd
    <3>6. CASE StationJoins
      BY <3>3, <3>6 DEF StationJoins, binderVars
    <3>7. CASE StationLeaves
      BY <3>3, <3>7 DEF StationLeaves, binderVars
    <3>8. CASE HostapdConfigures \/ UNCHANGED vars
      <4>1. /\ UNCHANGED <<impl, number_of_associated_stations, emptied, told>>
            /\ UNCHANGED ap_interface_event_callback
        BY <3>8 DEF HostapdConfigures, vars, binderVars
      <4>2. g[0] = h[0] /\ (EmptyAhead(h) => EmptyAhead(g)')
        BY <2>2, AheadContinues DEF IInv
      <4> QED
        BY <2>1, <4>1, <4>2 DEF Accounts
    <3> QED
      BY <1>2, <3>1, <3>2, <3>4, <3>5, <3>6, <3>7, <3>8 DEF Next
  <2> QED
    BY <2>2, <2>3 DEF Counted, Continues, History
<1> QED
  BY <1>1, <1>2

(* At the start there is no event and no station.                           *)
LEMMA Start ==
    ASSUME Init
    PROVE  IInv
<1>1. TypeOK
  <2>1. events \in Seq({"NEW_STATION", "DEL_STATION"})
    BY DEF Init
  <2>2. stations \in 0..MaxStations
    BY SoftApAssumption DEF Init
  <2> QED
    BY <2>1, <2>2 DEF Init, TypeOK
<1>2. PICK h : h = [j \in 0..0 |-> 0]
  OBVIOUS
<1>3. Len(events) = 0 /\ ~impl
  BY DEF Init
<1>4. h \in [0..Len(events) -> Nat] /\ History(h)
  BY <1>2, <1>3 DEF History, Init
<1> QED
  BY <1>1, <1>3, <1>4 DEF IInv, Counted

(* When no event waits the history is one number, the number of stations.   *)
LEMMA Settled ==
    ASSUME IInv
    PROVE  CountNeverExceeds /\ CountSettles /\ CallbackSettles
<1> SUFFICES ASSUME impl, events = <<>>
             PROVE  /\ number_of_associated_stations <= stations
                    /\ "object" \in emptied =>
                          number_of_associated_stations = stations
                    /\ ap_interface_event_callback /\ "callback" \in emptied =>
                          told = stations
  BY DEF CountNeverExceeds, CountSettles, CallbackSettles
<1>1. PICK h : History(h) /\ Accounts(h)
  BY DEF IInv, Counted
<1>2. Len(events) = 0
  OBVIOUS
<1>3. h[0] = stations /\ (EmptyAhead(h) => h[0] = 0)
  BY <1>1, <1>2 DEF History, EmptyAhead
<1>4. number_of_associated_stations \in Nat
  BY DEF IInv, TypeOK
<1> QED
  BY <1>1, <1>3, <1>4 DEF Accounts

(* The invariant holds throughout.                                          *)
LEMMA Invariant == Spec => []IInv
<1>1. Init => IInv
  BY Start
<1>2. IInv /\ [Next]_vars => IInv'
  BY TypeStep, CountedStep DEF IInv
<1> QED
  BY <1>1, <1>2, PTL DEF Spec

(* Type correctness: the variables of the soft AP keep their types; the     *)
(* count never goes below zero, however many DEL_STATION events come.       *)
THEOREM TypeCorrect == Spec => []TypeOK
<1>1. IInv => TypeOK
  BY DEF IInv
<1> QED
  BY <1>1, Invariant, PTL

(* For any number of stations and of waiting events: an ApInterfaceImpl     *)
(* that has read all events counts no station that is not there.            *)
THEOREM NoStationTooMany == Spec => []CountNeverExceeds
BY Settled, Invariant, PTL

(* An object in whose life time the hotspot has been empty counts exactly   *)
(* the stations, once it has read all events, whatever its predecessors and *)
(* the failures of stopHostapd left in the queue.                           *)
THEOREM CountIsRight == Spec => []CountSettles
BY Settled, Invariant, PTL

(* And so for the callback of startHostapd: it has been told that number    *)
(* last, if the hotspot has been empty since it was given.                  *)
THEOREM CallbackIsRight == Spec => []CallbackSettles
BY Settled, Invariant, PTL
=============================================================================
