# wificond in TLA+

wificond is the Android daemon between the Wi-Fi framework and the kernel. It
owns the nl80211 sockets, starts and stops scans over nl80211 and over the
Wi-Fi Offload HAL, tracks the association of a station interface and the
clients of a soft AP, and hands out binder objects for interfaces. This
directory holds TLA+ models of it, the TLC configurations that check them on
small instances, and TLAPS proofs.

wificond has one thread. Its looper polls the binder, hwbinder and netlink
descriptors and runs one callback at a time to its end
(`looper_backed_event_loop.cpp`, `main.cpp`). There are no locks and no data
races; what makes it hard is the order of messages. A reply on the request
socket overtakes events queued on the event socket, the framework, the kernel
and the HAL act between any two callbacks, and each of them can fail, restart
or speak late. So an action of a model is a whole callback with every call it
makes, and the models interleave callbacks with what the outside does.

## Inventory

| Part | State | Operations | Interacts with | What makes it correct |
|---|---|---|---|---|
| `ScannerImpl`, scheduled scans | `pno_scan_started_`, `pno_scan_running_over_offload_`, `pno_scan_results_from_offload_`, `pno_settings_`, handler | startPnoScan, stopPnoScan, (un)subscribe, OnSchedScanResultsReady, OnOffloadScanResult, OnOffloadError | OffloadScanManager, ScanUtils, framework | a scan the framework counts on is running or its loss is on the way to it; no scan is left behind |
| `OffloadScanManager` | HAL proxy, `service_available_`, `offload_status_`, cached results | startScan, stopScan, lazy InitService, ReportError, ReportScanResults, OnObjectDeath | HAL over hwbinder, ScannerImpl by callback | a scan believed to run has a usable HAL behind it |
| `ScannerImpl`, one-shot scans | `scan_started_`, handler | scan, abortScan, (un)subscribe, OnScanResultsReady | ScanUtils, ClientInterfaceImpl | every scan answered true ends in exactly one event |
| `ClientInterfaceImpl` | `is_associated_`, `bssid_`, `associate_freq_` | five MLME handlers, SignalPoll, GetPacketCounters, SetMacAddress | NetlinkUtils, ScanUtils, InterfaceTool | what it says of the association is what the kernel last said |
| `ApInterfaceImpl` | `number_of_associated_stations_` | StartHostapd, StopHostapd, station and channel events | NetlinkUtils, supplicant manager | the number is the number of stations |
| `Server` | interface maps, callbacks, `wiphy_index_` | create/tear down interfaces, tearDownInterfaces, (un)register callback, regulatory events | all of the above | one object per name, events of a live object reach it |
| `NetlinkManager` | sequence number, handler maps, two sockets, one static buffer | synchronous request, event dispatch, (un)subscribe | kernel | an answer belongs to its request; no handler outlives its request or object |
| `NetlinkManager::Start`, `main`, the event loop | sockets, family id and groups, `started_`; the looper's table, `should_continue_` | Start and its retries, PostTask, WatchFileDescriptor, Poll, TriggerExit, the signal handler | kernel, binder, init | started means subscribed; nothing is left open; a signal ends the process |
| `NetlinkUtils` | `supports_split_wiphy_dump_` | requests for wiphys, interfaces, stations, the country, and their parsing | NetlinkManager, Server, ClientInterfaceImpl | what it returns is what the kernel had, whatever changed during the dump |
| `ScanUtils` | none | packets of scans and scheduled scans, parsing of scan results | NetlinkManager, ScannerImpl | a request the driver can accept, results that are real |
| `ScannerImpl`, settings | capabilities, features, `pno_settings_` | ParsePnoSettings, GenerateIntervalSetting, the lists of scan | ScanUtils, HAL | no network is dropped that there was room for |
| `NL80211Packet`, `NL80211Attr` | a byte vector | encode, decode and merge TLVs | | decode inverts encode |
| parcelables, HAL conversions | none | (un)marshalling | framework, HAL | what is read is what was written |
| binder objects, logging | a pointer to the implementation | forwarding | | |

Hard behaviours: messages overtaking one another (two sockets, hwbinder,
binder); callbacks made in the middle of another object's update; requests that
time out after 300 ms although the kernel carried them out; the HAL and the
kernel driver failing or restarting at any time; objects destroyed while the
framework holds their binder.

## Modules and the code

An action carries the name of the method it models, a variable the name of the
field without its underscore. Definitions marked as mutants
(`Name_Something`) are the plausible mistakes that each property is known to
catch; no specification uses them. `PROJECT.json` maps every other definition to
its lines.

| Module | Models | State |
|---|---|---|
| `ScanPlans`, `SchedScanKernel`, `OffloadScanManager` | the two backends of a scheduled scan: nl80211 and the Offload HAL with its manager | what each backend scans for, queued events, the HAL proxy, `offload_status_` |
| `PnoScanner` | `ScannerImpl`'s scheduled scans, composing the three above (EXTENDS) | flags, settings, subscription, how the process ended |
| `ClientStation` | `ClientInterfaceImpl`, its MLME handlers, and `ScannerImpl`'s one-shot scans over one queue of events | association, frequency, scan flag; link, scan and address in the kernel |
| `InterfaceLifecycle` | `Server`'s objects, what their constructors and destructors do to the handler maps, interfaces that vanish and return | both interface maps as one function of the kind, the handler maps, callbacks, the kernel's indices |
| `SoftAp` | `ApInterfaceImpl` and its binder over hostapd | counter, callback; stations and their events |
| `RequestReply` | what a synchronous netlink request promises (abstract) | one call, the kernel's answers |
| `NetlinkTransport` | `NetlinkManager`'s request loop and dispatch, with both sockets and the static buffer | handler map, sequence number, one waiting request, the loop over a datagram |
| `NL80211`, `NL80211Attr` | the numbers of nl80211 and the bytes of packets and attributes, with padding, nesting, look-up and `Merge` | none |
| `NetlinkUtils`, `ScanUtils` | the packets they send and what they read out of the packets they get | none |
| `Parcels` | the parcelables, as sequences of the values written | none |
| `KernelReplies` | external: what cfg80211 holds and the messages it is told in, split over a dump or not | a record `world` |
| `Queries` | the calls that ask the kernel: channels, interfaces, scan results, signal, counters, the construction of a client, dump | one call, its request and packets; the kernel's world |
| `ScanRequests` | what `ScannerImpl` asks of the kernel and the HAL, from the framework's parcel to the packet, and the way back of HAL results and statistics | capabilities, the PNO flags and settings, what was sent and answered |
| `Startup` | `main`, `NetlinkManager::Start` and its two retries, the event loop, signals | program counter, descriptors, epoll and looper tables, multicast memberships, tasks |
| `MC*` | instances for TLC, symmetry | |
| `*Proofs` | theorems and proofs | |

How they fit together. `NetlinkTransport` shows what the component modules
assume of a request: true is an answer to that request, false says nothing
about the kernel (their `late_ack` fault), and events are dispatched one at a
time and in order. `InterfaceLifecycle` shows when an object receives its
events, which `PnoScanner`, `ClientStation` and `SoftAp` assume of the object
they look at. The component modules run in one process but share no state
besides the two scan flags of `ScannerImpl`, which are independent of each
other, so they are checked apart. `Startup` shows that a started manager hears
the groups whose events the others queue. `Queries` and `ScanRequests` fill in
the data that the component modules leave opaque: `PnoScanner` and
`ClientStation` say when a request is made, `ScanRequests` what it says,
`Queries` what comes back; `NetlinkUtils`, `ScanUtils` and `Parcels` are
operators under both.

Abstractions. In the component modules SSIDs, channels and plans are opaque
values (`Settings`); an access point stands for its BSSID and its frequency; a netlink message is its
type, sequence number and part; addresses of stations, which only the log uses,
are left out. Every callback is one action, except in `NetlinkTransport`, whose
subject is the inside of a callback, and `Queries` and `Startup`, where the kernel or a signal comes
between two of its steps. Bytes are kept where the code computes with them
(attributes, information elements, rates and signals); commands, interface
names and scan types are names. A parcel is the sequence of values written to
it. History variables (`watched`, `awaited`,
`heard`, `refreshed`, `believed`, `disciplined`, `dangling`, `told`, `emptied`,
`answer` in `NetlinkTransport`, `dispatched`, `history`, `last_report`, `news`) are written and never read by what models the code.

## Runs

Every run is listed with its properties in `PROJECT.json`.

| Run | Checks | Instance |
|---|---|---|
| `pno_safety` | `NoSilentLoss`, `ScanOverOffloadIsUsable` under every fault | two requests, two lives of the HAL, two queued events each way |
| `pno_live` | `NoOrphanHalScan` and `LossIsNoticed` when calls on a live HAL succeed | one request, the rest the same |
| `station` | `AwaitedScanEnds`, `AssociationTracksKernel`, `FrequencySettles` with refused, late and ENODEV requests, failing dumps and MLME events without an address | two access points, three queued events |
| `lifecycle` | `HandlersAreAlive`, `RegDomainIsHeard` for any requests; `ObjectsHear`, `CallbacksAreAccurate`, `NoCollateralDown` while the framework asks for what exists and tears down first | two names (one never a substitute, the other the Wi-Fi interface), three objects, three indices, two loads of the driver, one callback |
| `softap` | `CountNeverExceeds`, `CountSettles`, `CallbackSettles` with every step failing, in any order of requests | three stations, six events |
| `netlink_requests` | `TypeOK` with `NumbersOK` (no number in use is 0) and `LoopInside` (the loop over a datagram stays inside it), `HandlersEndWithTheirCall`, `ImplementsRequestReply` | three requests, sequence numbers modulo 3 (so that they wrap), dumps of two messages, one event |
| `queries` | `ChannelsAreCurrent`, `CapabilitiesSurviveMerge`, `InterfacesAreReal`, `ScanResultsAreFaithful`, `StationAnswersAreExact`, with errors, silence and changes during a dump | two kernels (split dumps and none), two wiphys, five channels, four BSSs, one change per call |
| `scan_requests` | `PnoScanIsAcceptable`, `NetworksAreRight`, `ScanIsWhatWasMeant`, `NewsCanBeRead` | six devices at the edges of every limit, six one-shot and twelve PNO parcels (null lists and elements among them) |
| `startup` | `StartedMeansListening`, `NoSocketIsLeftBehind`, `ArrivalsAreDispatched`, `SignalEndsTheProcess`, with every system call failing | four groups, six descriptors, two signals |
| `netlink_dispatch` | `ResponseIsOwn`, `AckMeansDone`, `EventsAreKept`, `CallReturns`, `EventsAreDispatched`, with answers cut short and NOOPs | two requests, two events |

`NoCollateralDown` is about creations and tear downs. Two other calls take an
interface down and leave its object in place, and the property names them:
`StopHostapd`, on its own object, and `SetMacAddress`, whose
`InterfaceTool::SetWifiUpState` is given no name. `WifiInterface` is the interface
it stands for (external), and `LifecycleAssumption` says only that it is one of
the names. So `SetMacAddress` on a client object for another interface takes down
the Wi-Fi interface, and leaves it down when a later step fails.

`AssociationTracksKernel` tells apart (`heard`) whether the last MLME event handled
named an access point. After one without NL80211_ATTR_MAC
(`net/mlme_event.cpp:41`) `bssid_` is empty, also while `is_associated_` is true;
the property says that it is the kernel's or empty, never that of the past.

What a property does not promise is part of its statement where the model can
tell: `disciplined` in `InterfaceLifecycle` (an object created over another, or
under a name that does not exist and that falls back to another interface, does
lose events: the destructor of the replaced object runs after the constructor
of the new one and erases the handler by index), `emptied` in `SoftAp` (an
object made while an earlier hotspot goes on counts from zero until that
hotspot has been empty), `refreshed` in `ClientStation`, the premises of
`PnoScanIsAcceptable` (an interval below a second becomes a plan of zero
seconds, one above 2^32/3 ms wraps, and the wildcard SSID is sent also to a
driver that takes none), `SelfDeadlock` in `Startup`. Faults that a passing
run leaves out are those under which its property is false: an AP that rejects
an association, several events in a datagram (both under "disagree" below), calls on a live HAL that fail (`NoOrphanHalScan`: a HAL that
refuses unsubscribeScanResults scans on), and for `ImplementsRequestReply`
answers cut short and NOOPs: `SendMessageAndGetResponses` takes NLMSG_OVERRUN,
an NLMSG_DONE with an error and an NLMSG_NOOP for the end of a complete answer.

Bounds. Two requests, access points or names tell the current one from a stale
one; a third adds an instance that behaves like one of them. Queues hold enough
to overtake: one event of the past, one of the present and the one that ends
what runs. Two lives of the HAL or the driver give a proxy or an index of a
dead one. `SeqMod` is 3 with `MaxAge` 1: two numbers in use besides 0, as many
as requests whose answers may meet; the code has 2^32 and the
assumption `MaxAge + 1 < SeqMod` says that no answer is four thousand million
requests late. When a queue is full, the environment waits and so does a
request that would add to it; the kernel's overflow of the event socket is not
modelled (hazard `netlink_manager.cpp:96`). `ScanRequests` scales its arithmetic:
a second has 10 milliseconds and a word wraps at 1000 instead of 2^32, so that
each comparison of `GenerateIntervalSetting` goes either way and both products
wrap within reach. In `Queries` one change per call is enough to fall before,
between and after the messages of any dump; calls follow one another without
end, each in a world of its own. In `Startup` at most five descriptors are open
at once, so six numbers always leave one to reuse; the second signal meets the
handler of the first. The theorems hold for all bounds.

Symmetry is used for requests, access points and addresses in safety runs only;
no action or property singles one out.

`CHECK_DEADLOCK FALSE` stands where the system may stop: wificond ends itself
with a CHECK on ENODEV (`PnoScanner`, `ClientStation`), and in
`NetlinkTransport` the bounds on requests and events run out; in `Startup` the
process ends. The other runs
check for deadlock.

Fairness. Weak fairness of wificond's own steps only: the looper dispatches a
descriptor that stays readable, poll returns at the latest when its time is up,
a handler ends, and in `Startup` the thread of `main` goes on while it can. Nothing is assumed of the framework, the kernel or the HAL: a
kernel that never answers is allowed, and `CallReturns` holds with it.

## Where the code and its documentation disagree

Two runs show a violation, each of a line quoted in `PROJECT.json`:

* `pno_hal_death`: the HAL dies under a scan and its null proxy is used.
* `lifecycle_dead_scanner`: `Invalidate` does not invalidate.

Known disagreements that are described here and not by a run:

* A handler of an event that makes a synchronous request reads into the static
  `ReceiveBuffer` that the loop over the datagram still walks
  (`net/netlink_manager.cpp:104`, `:127`). Harmless while a datagram holds one
  event, which is what the kernel sends and what the models assume.
* `stopPnoScan` and `startPnoScan` before the kernel's SCHED_SCAN_STOPPED for
  the first scan has been read: the event is taken for the failure of the second
  (`scanning/scanner_impl.cpp:428`). `PnoScanner` has this behaviour.
* The status code of an ASSOCIATE event is not parsed but set to 0
  (`net/mlme_event.cpp:66`), so a rejected association looks like a success.
  `ClientStation` has the rejection as a fault that its run leaves out.
* `scanning/scan_utils.h:103` speaks of a minimum RSSI for 2 GHz. The code sends
  the difference as SCHED_SCAN_RSSI_ADJUST (`scanning/scan_utils.cpp:443`), which
  the kernel's header (`nl80211.h:2041`) ties to SCHED_SCAN_RELATIVE_RSSI, an
  attribute that is never sent.
* A 5 GHz channel on which radar was seen (DFS state UNAVAILABLE) is in the list
  of channels without DFS (`net/netlink_utils.cpp:415`, against
  `aidl/android/net/wifi/IWificond.aidl:53`). `Home` in `Queries` says so.
* The signal handler posts a task and so takes the looper's lock
  (`main.cpp:71`): a signal that interrupts the thread inside that lock hangs the
  process. `SelfDeadlock` in `Startup`. Posting also allocates memory
  (`looper_backed_event_loop.cpp:81`), so a signal inside the allocator is a
  second way to hang, which is not modelled.
* `scanning/scan_result.h:60` says that `signal_mbm` is 100 times the signal in
  dBm. `scanning/offload/offload_scan_utils.cpp:49` stores the HAL's `rssi` there as
  it is, and `tests/offload_scan_utils_test.cpp:60` expects that.
  `NewsCanBeRead` follows the code.

Smaller things that are modelled as the code does them and that a reader of the
AIDL files would not expect: `OnOffloadError` calls the PNO handler without a
null test when the fallback fails (`crashed = "null_handler"`); `stopPnoScan`
stops one backend of two; `abortScan` is ignored once another process's scan
has ended; `signalPoll` may combine the BSSID of one access point with the
frequency of another while events wait; `getMacAddress` answers with the
address of the object's creation; after an association that was announced without
an address `signalPoll` and `getPacketCounters` ask for a station without one and
fail; interface callbacks stay registered after
they were told of an end.

## Proofs

All theorems are for every value of the constants that meets the assumptions
named in the modules that declare them (`OffloadAssumption`, `KernelAssumption`,
`ScanPlansAssumption`, `StationAssumption`, `LifecycleAssumption`,
`TransportAssumption`, `NoAnswerAssumption`, `SoftApAssumption`,
`StartupAssumption`, `WordAssumption`, `SecondAssumption`, `InterfaceAssumption`,
`HalReportsAssumption`, `DevicesAssumption`, `SingleParcelsAssumption`,
`PnoParcelsAssumption`); TLC evaluates them in the runs. They say that bounds are
numbers, that the values for "none" are not values, and which faults there are.
Some say more:

* `MaxAge + 1 < SeqMod` in `TransportAssumption` (under "Bounds").
* `StartupAssumption`: the kernel knows the groups that `Start` subscribes to.
* `HalReportsAssumption`: a report of the HAL is a sequence of results with the
  types of the HIDL interface.
* `DevicesAssumption`: the limits on SSIDs and match sets are bytes, the others
  words of 32 bits, as in `ScanCapabilities` (`net/netlink_utils.h:63`).
* `SingleParcelsAssumption` and `PnoParcelsAssumption`: what `readFromParcel`
  gives are the fields of the classes in `scanning/`; an SSID has at most the 32
  bytes of 802.11, which the code does not test; and a one-shot scan names fewer
  than 8192 channels, since the list of more would not fit the 16 bits of
  `nla_len`, which the code does not test either.

A hypothesis on the faults is part of the statement of the theorem that needs it.

| Module | Theorems | Hypothesis |
|---|---|---|
| `PnoScannerProofs` | `TypeCorrect`, `InductiveInvariant`, `OffloadScanUsable`, `WatchedScanNeverSilentlyLost` | |
| | `NoScanIsOrphaned` | calls on a live HAL do not fail |
| `ClientStationProofs` | `TypeCorrect`, `NoAwaitedScanIsLost` | |
| | `AssociationIsTracked`, `FrequencyIsRight` | no AP rejects an association |
| `InterfaceLifecycleProofs` | `TypeCorrect`, `NoHandlerDangles`, `RegDomainStaysHeard`, `DisciplinedObjectsHear`, `CallbacksKnow`, `NothingElseGoesDown` | the last three speak of the states in which `disciplined` holds |
| `SoftApProofs` | `TypeCorrect`, `NoStationTooMany`, `CountIsRight`, `CallbackIsRight` | |
| `NetlinkTransportProofs` | `TypeCorrect`, `NoHandlerIsLeftBehind` | |
| | `NoEventIsSkipped` | one event to a datagram |
| | `ResponseIsOfItsRequest`, `AckIsTrue` | |
| | `RequestsAreAnswered` (refinement) | `Exact`: no answer cut short, no NOOP |
| `StartupProofs` | `StartedListens`, `NothingIsLeftBehind` | |
| `CodecProofs` | `StationIsReadAsWritten`, `ScanResultIsReadAsWritten`, `ScanDumpIsReadAsWritten`, `SingleValuesAreReadAsWritten` | what the kernel writes is in `Station`, `KernelBss`, `Name`, `Word32` |
| `ScanRequestsProofs` | `NewsAreReadable`, `ScansAreWhatWasMeant`, `NetworksOfScansAreRight`, `PnoScansAreAcceptable` | |
| | `PlansFitTheDevice` | an interval of at least a second whose triple fits a word |

Along which argument, module by module:

* `PnoScannerProofs`. `NoSilentLoss` is
  not inductive: the step from a death notice to the callback needs that the
  proxy of an available service is linked and alive or its death queued
  (`HalHeld`); that a scan believed to run over the HAL has an available
  service without an error (`OffloadRunUsable`); that who is watched is
  subscribed (`WatcherIsHeard`); and that each way in which a scan is watched
  is backed by the backend or a queued message (`WatchIsKept`). One lemma per
  operation shows that it keeps all of them. `NoOrphanHalScan` needs on top of it
  that a plan in the HAL is one the flag knows of and the proxy reaches
  (`HalScanKnown`), which in turn needs that lives of the HAL are numbered and no
  death waits for the one that runs (`HalNumbered`).
* `InterfaceLifecycleProofs`. `HandlersAreAlive` is inductive with the types.
  `ObjectsHear` needs, while the framework is disciplined, that indices
  are never handed out twice (`IndicesAreFresh`) and that no two objects of a kind
  share one (`ObjectsOwnIndices`). `RegDomainIsHeard` is stated over the names of
  the maps (`RegByName`), for which the order of constructor and destructor can be
  followed. `CallbacksAreAccurate` needs that a disciplined framework has at most
  one object for a name and for the interface of that name (`OneToAName`); then a
  tear down tells of the object it erases. `NoCollateralDown`, an action property,
  follows from the same: what a destructor takes down belongs to no other object,
  and of the calls that make or end no object only the two it names write `up`.
* `ClientStationProofs`. `AwaitedScanEnds` and `AssociationTracksKernel`
  rest on `StepsMove`: every
  step of the kernel and every request appends a tail to the queue that tells
  of the change it makes. Then the last MLME event in the queue, or the last
  one handled, tells the state of the link (`LastNewsIsTrue`: whether there is one,
  and its BSS if the event has an address, `Fits`), and
  `FrequencySettles` is inductive together with it.
* `SoftApProofs`. The counter and the stations agree only when no event waits.
  The invariant `Counted` says that there is a history of the number of stations,
  one value before each waiting event, that ends in the number of now, whose first
  value the counter does not exceed; and equals, unless the history is
  still to pass through zero, if the hotspot was empty in the life of the object.
  A NEW_STATION or DEL_STATION that is read takes the first value off.
* `NetlinkTransportProofs`. `HandlersEndWithTheirCall` is inductive. The rest needs
  `BookInv`: a message under way has the number of its request, and the number is
  no older than `MaxAge` says (`Numbered`); the loop over a datagram stays inside
  the buffer, which a nested request may have overwritten (`FrameOK`). `TypeOK`, with its
  parts `NumbersOK` and `LoopInside`, follows with `WaitingCallIsMade`. Without
  batches, the event in the loop and those in the socket continue the ones
  dispatched (`Kept`).
* `NetlinkTransportProofs`, second part. The kernel's messages for the waiting
  request are one stream `w`, of which some are read, some in the socket between late messages of
  other requests, and some still to leave (`Stream`); what has been read is the
  response (`Heard`); and what the handler is given of `w` is a beginning of the
  answer, all of it when `w` ends unless answers are garbled (`Faithful`).
  `ResponseIsOwn` and `AckMeansDone` follow. For the refinement, the initial state
  is one of `RequestReply`, and each action of `NetlinkTransport` is shown to be a
  step of it or a stutter in states with `BookInv` and `Replies`: sending begins a
  call, the kernel's answer is the abstract answer, the end of the loop returns
  with the whole answer or fails, and everything about datagrams, time and
  events stutters.
* `StartupProofs`. Each step of `Start` finds what the steps before it left
  (`Progress`), by descriptors that are open, apart from one another and from
  binder's (`Descriptors`), so that closing a socket takes along its own
  registrations and no others. The second and third attempt begin like the first because
  `NoSocketIsLeftBehind` holds after a failed one.
* `CodecProofs`. A buffer holds a list of attributes (`Holds`) if they lie in it
  one after the other, each at a multiple of four and as long as its header says
  with the padding. The empty buffer holds none; to append a valid attribute is to
  append it to the list; so `AddAttribute`, which also rewrites the length of the
  nest, builds a nest that holds what was added (`NestHolds`), and the loop of the
  look-up, which follows the lengths it reads, finds the list again and stops at
  its end (`AttributesAreRead`). That the first attribute with an id is the
  one returned, that integers come back from their bytes (`IntIsRead`) and that a
  nest is found in a nest follow. On top of that, what the kernel's replies read
  as. An integer of one, two, four or eight bytes comes back, with its sign where the
  code reads it as signed: the bytes of a negative number are the complements of those of its
  complement (`SignedIsRead`). A reply holds the attributes it was made of
  (`ReplyHolds`). What a look-up finds in a list put together from parts is what
  it finds in the first part, or else in the second (`FoundInBoth`), so that optional
  attributes, which move the later ones, are found or not whatever the others are
  (`BssListFound`). The loop over information elements stops at the first SSID
  (`SsidIsFound`) and otherwise runs to the end of the list (`NoSsidIsFound`). Flattening a
  sequence of sequences puts each of them where the lengths of those before it say
  (`FlattenIs`). The sets say what the kernel may write: `IntBytes` writes four bytes and
  fills up with the sign, so the model, and the theorems with it, stops at words of 32 bits
  (`Word32`, `Int32`) even where the code reads 64; texts and lists of information elements
  are of at most 3000 bytes and a BSS has at most 256 chains, well above what the kernel puts
  into a message and below what the 16 bits of `nla_len` hold.
* `ScanRequestsProofs`. The source of the last news is the one `getPnoScanResults`
  reads, and the cache is the conversion of the HAL's last report (`NewsInv`); a
  result comes back from its parcel unchanged, if its types are those of the HIDL
  interface. For the requests themselves there are three layers. The loops: each turn
  of the loop over hidden networks keeps "the wildcard and the first hidden networks
  as far as there is room" (`Wanted`); each turn of `ParsePnoSettings` keeps that
  every entry of its lists stems from a network that was served, and that one was
  passed over only with a list full (`Chosen`, `Stems`, `Served`). The packets: what
  the loops built is what a reader of the packet finds (`IsScan`,
  `IsScheduledScan`), by `CodecProofs`. The specification: `SettingsInv`, by which the
  device is one of `Devices`, the settings kept are settings, and there are some while a scan
  runs over the HAL, so that the packet of a fall back in `OnOffloadError` is made of
  settings like that of `startPnoScan`. `PlansFitTheDevice` is arithmetic, division
  and remainder by an arbitrary word: it is the part of `PnoScanIsAcceptable` about
  plans.

The prover has no induction over data: its library states it with an operator as
a parameter. Where a proof needs what a recursive function computes for every
input, `Induction` and `Recursion` of `CodecProofs` state it for a set of numbers
and for a run of steps `f[0], ..., f[n]` inside a set; both follow from the least number
at which the claim fails, which exists because < on the naturals is well founded. The
project has no RECURSIVE operator, and loops in modules with theorems are recursive functions.

Model-checked only:

* Liveness: `LossIsNoticed`, `CallReturns`, `EventsAreDispatched`,
  `ArrivalsAreDispatched`, `SignalEndsTheProcess`. Fairness and ENABLED are out of
  the prover's reach.
* The properties of `Queries`: `ChannelsAreCurrent`, `CapabilitiesSurviveMerge`,
  `InterfacesAreReal`, `ScanResultsAreFaithful`, `StationAnswersAreExact`. The
  data they compare are proved for stations and scan results (`CodecProofs`); that the
  answer a call returns was in the kernel at some moment of the dump ranges over the
  dumps of a changing world, and for channels, capabilities and interfaces over the
  merge of split dumps and selections from lists, which the community modules define with
  operators as parameters that the prover cannot expand.

## Not modelled

* Loss of events when the event socket overflows: the code has nothing that
  would recover from it, so there is nothing to promise once one is lost.
* `enableSupplicant` and `disableSupplicant`, one call each to the supplicant
  manager; the texts of `dump`, of the log and of `LogSupportedBands`; binder
  forwarders, which test one pointer; string constants.
* The reading of regulatory and channel switch events, whose data end in the log.
* The transport errors of HIDL calls one by one (`hidl_call_util.h`):
  `OffloadScanManager` has their outcomes. Code without a caller outside of the
  tests: `RegisterHandlerAndSendMessage`, `PostDelayedTask`,
  `StopWatchFileDescriptor`, `PollForOne`.
* Calls that arrive over hwbinder in `Startup`: its descriptor is set up and polled
  but never gets ready. That a failing `addFd` is noticed there rests on
  `looper_backed_event_loop.cpp:106`, which tests for 0; the looper is external.
* Parcels that end too early and netlink messages that are malformed: neither the
  framework's `writeToParcel` nor the kernel produces them.

## Plan

1. Done: scheduled scans, station, interfaces, soft AP, netlink transport.
2. Done: packets and attributes, the requests and parsers of `NetlinkUtils` and
   `ScanUtils`, parcels, the settings of scans with their widths, the HAL's
   conversions, start-up and the event loop.
3. Done: the theorems above, with the refinement of `RequestReply`, the round trip
   of attributes and what scan requests say.
4. Done: what the kernel's replies about stations, scans, country and protocol features
   read as.
5. Left: the same for interfaces and for bands, with the merge of a split wiphy dump
   restated as a recursive function; then the invariants of `Queries`, by an invariant
   that ties each message of a dump under way to a world that was; the overflow of the
   event socket, once the code has an answer to it.
