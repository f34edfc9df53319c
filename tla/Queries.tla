------------------------------ MODULE Queries ------------------------------
(***************************************************************************)
(* The calls of the binder interface that ask the kernel and hand the answer *)
(* to the framework: available channels, interfaces, scan results, signal    *)
(* and packet counters, the dump.  Each is one or two netlink requests; the  *)
(* kernel answers with one message at a time, and what it reports on may     *)
(* change between two messages, and between two requests of one call.        *)
(* Between calls anything may change.  A request can fail (NetlinkTransport: *)
(* false and no packets), which the callers treat like no packets at all, or *)
(* be answered with an error.                                                *)
(***************************************************************************)
EXTENDS KernelReplies, Parcels

CONSTANTS
    Worlds,          \* what the kernel may have when a call begins
    NewBss,          \* BSSs a scan may find during a call
    Links,           \* [associated, bssid, freq] of the client interface
    InterfaceIndex,  \* the index of the client interface
    MaxChanges       \* bound on the changes of the world during a call

VARIABLES
    call,         \* the call in progress, "idle" between calls
    world,        \* see KernelReplies
    request,      \* the request sent last
    response,     \* the packets received for it
    ended,        \* has SendMessageAndGetResponses its answer?
    wiphy_index,  \* Server::wiphy_index_, not initialised at first
    split,        \* NetlinkUtils::supports_split_wiphy_dump_
    link,         \* ClientInterfaceImpl's is_associated_, bssid_, associate_freq_
    answer,       \* what the last call returned: [call, ok, value]
    history       \* about the last call: [channels, bss, changes, fault]

vars == <<call, world, request, response, ended, wiphy_index, split, link, answer, history>>

Channels == DOMAIN world.channels

\* What a call has seen so far: nothing but the world it starts in.
Fresh(w) ==
    [channels |-> [f \in DOMAIN w.channels |-> {w.channels[f]}],
     bss |-> ToSet(w.bss), changes |-> 0, fault |-> FALSE]

Send(packet) ==
    /\ request' = packet
    /\ response' = <<>>
    /\ ended' = FALSE

NoAnswer == [call |-> "none", ok |-> FALSE, value |-> <<>>]

\* A call starts with a request, in a world of its own.
Begin(c, packet) ==
    /\ call = "idle"
    /\ call' = c
    /\ world' \in Worlds
    /\ history' = Fresh(world')
    /\ answer' = NoAnswer
    /\ Send(packet)
    /\ UNCHANGED <<wiphy_index, split, link>>

Return(ok, value) ==
    /\ call' = "idle"
    /\ answer' = [call |-> call, ok |-> ok, value |-> value]
    /\ UNCHANGED <<world, request, response, ended, history>>

\* Of a call that found something or nothing.
ReturnFound(found, Value(_)) ==
    IF found = <<>> THEN Return(FALSE, <<>>) ELSE Return(TRUE, Value(found[1]))

-----------------------------------------------------------------------------
(* The calls *)

\* The constructor of NetlinkUtils asks before anything else happens.
Init ==
    /\ call = "constructor"
    /\ world \in Worlds
    /\ request = GetProtocolFeaturesRequest
    /\ response = <<>>
    /\ ended = FALSE
    /\ wiphy_index \in {w.wiphys[1].index : w \in Worlds} \cup {99}
    /\ split = FALSE
    /\ link \in Links
    /\ answer = NoAnswer
    /\ history = Fresh(world)

ProtocolFeaturesKnown ==
    /\ call = "constructor" /\ ended
    /\ split' = SupportsSplitWiphyDump(response)
    /\ Return(TRUE, <<>>)
    /\ UNCHANGED <<wiphy_index, link>>

\* getAvailable2gChannels, getAvailable5gNonDFSChannels, getAvailableDFSChannels
getAvailableChannels(band) ==
    /\ Begin(band, GetWiphyInfoRequest(wiphy_index, split))

ChannelsKnown(band) ==
    /\ call = band /\ ended
    /\ ReturnFound(GetWiphyInfo(response, wiphy_index, split), LAMBDA i : i.band_info[band])
    /\ UNCHANGED <<wiphy_index, split, link>>

\* The constructor of ClientInterfaceImpl; its caller has just set up the index.
ClientWiphyInfo ==
    /\ Begin("wiphyInfo", GetWiphyInfoRequest(wiphy_index, split))

ClientWiphyInfoKnown ==
    /\ call = "wiphyInfo" /\ ended
    /\ ReturnFound(GetWiphyInfo(response, wiphy_index, split), LAMBDA i : i)
    /\ UNCHANGED <<wiphy_index, split, link>>

\* SetupInterface and MarkDownAllInterfaces: the index, then its interfaces.
FindInterfaces(c) ==
    /\ Begin(c, GetWiphyIndexRequest)

\* SetupInterface keeps the index, MarkDownAllInterfaces uses it once.
WiphyIndexKnown(c, next) ==
    LET found == GetWiphyIndex(response, wiphy_index)
    IN  /\ call = c /\ ended
        /\ wiphy_index' = IF c = "setup" THEN found.out ELSE wiphy_index
        /\ IF found.ok
           THEN /\ call' = next
                /\ Send(GetInterfacesRequest(found.out))
                /\ UNCHANGED <<world, answer, history>>
           ELSE Return(FALSE, <<>>)
        /\ UNCHANGED <<split, link>>

InterfacesKnown(c) ==
    /\ call = c /\ ended
    /\ Return(GetInterfaces(response).ok, GetInterfaces(response).out)
    /\ UNCHANGED <<wiphy_index, split, link>>

getScanResults ==
    /\ Begin("scanResults", GetScanResultRequest(InterfaceIndex))

\* What the framework reads out of the parcels.
ScanResultsKnown ==
    LET results == GetScanResult(response, InterfaceIndex)
    IN  /\ call = "scanResults" /\ ended
        /\ Return(TRUE, FlattenSeq([i \in DOMAIN results |->
                            ReadNativeScanResult(WriteNativeScanResult(results[i]))]))
        /\ UNCHANGED <<wiphy_index, split, link>>

SignalPoll ==
    /\ link.associated
    /\ Begin("signalPoll", GetStationInfoRequest(InterfaceIndex, link.bssid))

SignalPollUnassociated ==
    /\ call = "idle"
    /\ ~link.associated
    /\ answer' = [call |-> "signalPoll", ok |-> FALSE, value |-> <<>>]
    /\ UNCHANGED <<call, world, request, response, ended, wiphy_index, split, link, history>>

(* Mutant: the rate is handed on in units of 100 kbit/s.                    *)
SignalPollRawRate ==
    /\ call = "signalPoll" /\ ended
    /\ ReturnFound(GetStationInfo(response), LAMBDA s :
           <<s.current_rssi, s.station_tx_bitrate, link.freq>>)
    /\ UNCHANGED <<wiphy_index, split, link>>

\* In dBm, Mbit/s (from 100 kbit/s) and MHz.
SignalPollKnown ==
    /\ call = "signalPoll" /\ ended
    /\ ReturnFound(GetStationInfo(response), LAMBDA s :
           <<s.current_rssi, s.station_tx_bitrate \div 10, link.freq>>)
    /\ UNCHANGED <<wiphy_index, split, link>>

GetPacketCounters ==
    /\ Begin("packetCounters", GetStationInfoRequest(InterfaceIndex, link.bssid))

PacketCountersKnown ==
    /\ call = "packetCounters" /\ ended
    /\ ReturnFound(GetStationInfo(response), LAMBDA s :
           <<s.station_tx_packets, s.station_tx_failed>>)
    /\ UNCHANGED <<wiphy_index, split, link>>

\* The one part of the dump that asks the kernel.
dump ==
    /\ Begin("dump", GetCountryCodeRequest)

CountryCodeKnown ==
    /\ call = "dump" /\ ended
    /\ ReturnFound(GetCountryCode(response), LAMBDA c : c)
    /\ UNCHANGED <<wiphy_index, split, link>>

\* An event of the station, handled between two calls.
MlmeEvent ==
    /\ call = "idle"
    /\ link' \in Links \ {link}
    /\ UNCHANGED <<call, world, request, response, ended, wiphy_index, split, answer, history>>

-----------------------------------------------------------------------------
(* The kernel *)

Asked == call # "idle" /\ ~ended

KernelMessage ==
    /\ Asked
    /\ Len(response) < Len(Messages(world, request))
    /\ response' = Append(response, Messages(world, request)[Len(response) + 1])
    /\ UNCHANGED <<call, world, request, ended, wiphy_index, split, link, answer, history>>

\* NLMSG_DONE, or the one message of a request without a dump.
KernelDone ==
    /\ Asked
    /\ Len(response) >= Len(Messages(world, request))
    /\ ended' = TRUE
    /\ UNCHANGED <<call, world, request, response, wiphy_index, split, link, answer, history>>

\* An error instead of the answer, or no answer in time.
KernelFails(packets) ==
    /\ Asked
    /\ response = <<>>
    /\ response' = packets
    /\ ended' = TRUE
    /\ history' = [history EXCEPT !.fault = TRUE]
    /\ UNCHANGED <<call, world, request, wiphy_index, split, link, answer>>

Changed(w) ==
    /\ Asked
    /\ history.changes < MaxChanges
    /\ world' = w
    /\ history' = [history EXCEPT !.changes = @ + 1, !.bss = @ \cup ToSet(w.bss),
                                  !.channels = [f \in Channels |-> @[f] \cup {w.channels[f]}]]
    /\ UNCHANGED <<call, request, response, ended, wiphy_index, split, link, answer>>

\* A regulatory change, radar, or the end of an availability check.
ChannelChanges(f, state) ==
    /\ request.command = "GET_WIPHY"
    /\ world.channels[f] # state
    /\ state \in {"dfs_usable", "dfs_unavailable", "dfs_available"} => InBand(f, 5000, 5850)
    /\ Changed([world EXCEPT !.channels[f] = state])

\* The last wiphy is unplugged, between two requests.
WiphyGoes ==
    /\ response = <<>>
    /\ request.command \in {"GET_WIPHY", "GET_INTERFACE"}
    /\ Len(world.wiphys) > 1
    /\ Changed([world EXCEPT !.wiphys = Front(@),
                             !.ifaces = SelectSeq(@, LAMBDA i :
                                 i.wiphy # Last(world.wiphys).index)])

BssExpires(i) ==
    /\ request.command = "GET_SCAN"
    /\ i \in DOMAIN world.bss
    /\ Changed([world EXCEPT !.bss = RemoveAt(@, i)])

BssFound(bss) ==
    /\ request.command = "GET_SCAN"
    /\ ~Contains(world.bss, bss)
    /\ Changed([world EXCEPT !.bss = Append(@, bss)])

Next ==
    \/ ProtocolFeaturesKnown
    \/ \E band \in {"band_2g", "band_5g", "band_dfs"} :
          getAvailableChannels(band) \/ ChannelsKnown(band)
    \/ ClientWiphyInfo \/ ClientWiphyInfoKnown
    \/ \E c \in {"setup", "markDown"} : FindInterfaces(c)
    \/ WiphyIndexKnown("setup", "setupInterfaces") \/ InterfacesKnown("setupInterfaces")
    \/ WiphyIndexKnown("markDown", "markDownInterfaces")
    \/ InterfacesKnown("markDownInterfaces")
    \/ getScanResults \/ ScanResultsKnown
    \/ SignalPoll \/ SignalPollUnassociated \/ SignalPollKnown
    \/ GetPacketCounters \/ PacketCountersKnown
    \/ dump \/ CountryCodeKnown
    \/ MlmeEvent
    \/ KernelMessage \/ KernelDone
    \/ KernelFails(<<ErrorReply>>) \/ KernelFails(<<>>)
    \/ \E f \in Channels, s \in ChannelStates : ChannelChanges(f, s)
    \/ WiphyGoes
    \/ \E i \in DOMAIN world.bss : BssExpires(i)
    \/ \E bss \in NewBss : BssFound(bss)

Spec == Init /\ [][Next]_vars

-----------------------------------------------------------------------------
(* Properties *)

Bands == {"band_2g", "band_5g", "band_dfs"}

Answered(calls) == call = "idle" /\ answer.call \in calls

\* The wiphys with the index the server uses: at most one.
OurWiphys == {w \in ToSet(world.wiphys) : w.index = wiphy_index}

OurChannels == UNION {ToSet(w.bands[b]) : <<w, b>> \in {<<w, b>> \in OurWiphys \X (1 .. 2) :
                                                         b \in DOMAIN w.bands}}

\* The list the framework should find a channel in.
Home(f, state) ==
    IF state = "disabled" \/ f > 5850 THEN "none"
    ELSE IF f < 3000 THEN "band_2g"
    ELSE IF state \in {"enabled", "dfs_unavailable"} THEN "band_5g" ELSE "band_dfs"

\* getAvailable*Channels (server.cpp) answers whenever the kernel does and knows
\* the wiphy; then every channel of that wiphy is in the list once or not at all,
\* according to a state it had during the call, and no other channel is in it:
\* merging a split dump (netlink_utils.cpp) loses, doubles and mixes up nothing.
ChannelsAreCurrent ==
    Answered(Bands) =>
      LET Times(f) == Cardinality({i \in DOMAIN answer.value : answer.value[i] = f})
          Due(f, s) == IF f \in OurChannels /\ Home(f, s) = answer.call THEN 1 ELSE 0
      IN  /\ answer.ok <=> OurWiphys # {} /\ ~history.fault
          /\ answer.ok => /\ ToSet(answer.value) \subseteq Channels
                          /\ \A f \in Channels :
                               Times(f) \in {Due(f, s) : s \in history.channels[f]}

\* The capabilities and features a client interface is created with are those of
\* its wiphy, in whichever of the messages of the dump the kernel sent them; the
\* extended features are known only from a split dump.
CapabilitiesSurviveMerge ==
    Answered({"wiphyInfo"}) =>
      /\ answer.ok <=> OurWiphys # {} /\ ~history.fault
      /\ answer.ok => \A w \in OurWiphys :
           LET Supports(feature) == feature \in w.supports
               ext == split /\ w.ext_bytes >= 3
           IN  /\ answer.value.scan_capabilities = w.caps
               /\ answer.value.wiphy_features =
                    [supports_random_mac_oneshot_scan |-> Supports("random_mac_oneshot"),
                     supports_random_mac_sched_scan |-> Supports("random_mac_sched"),
                     supports_low_span_oneshot_scan |-> ext /\ Supports("low_span"),
                     supports_low_power_oneshot_scan |-> ext /\ Supports("low_power"),
                     supports_high_accuracy_oneshot_scan |->
                         split /\ w.ext_bytes >= 4 /\ Supports("high_accuracy")]

\* The interfaces SetupInterface and MarkDownAllInterfaces work on are the real
\* ones of the wiphy they asked for, pseudo interfaces left out; when the wiphy
\* went away between the two requests there are none, and the call fails.
InterfacesAreReal ==
    Answered({"setupInterfaces", "markDownInterfaces"}) =>
      LET wiphy == GetInt(request.body, ATTR.WIPHY, 4)[1]
          all == SelectSeq(world.ifaces, LAMBDA i : i.wiphy = wiphy)
          real == SelectSeq(all, LAMBDA i : i.index # 0)
      IN  /\ answer.ok <=> all # <<>> /\ ~history.fault
          /\ answer.ok => answer.value = [i \in DOMAIN real |->
                InterfaceInfo(real[i].index, real[i].name, real[i].mac)]
          /\ answer.ok /\ answer.call = "setupInterfaces" =>
                /\ wiphy_index = wiphy
                /\ \E w \in ToSet(world.wiphys) : w.index = wiphy

\* What the framework should read of a BSS.
SsidElements(bss) == SelectSeq(bss.elements, LAMBDA e : e.id = kElemIdSsid)
ResultOf(bss) ==
    NativeScanResult(SsidElements(bss)[1].body, bss.bssid, InfoElements(bss.elements),
        bss.freq, bss.signal,
        IF bss.boottime >= 0 THEN bss.boottime \div 1000 ELSE Max({bss.tsf, bss.beacon_tsf}),
        bss.capability, bss.status \in {BSS_STATUS.AUTHENTICATED, BSS_STATUS.ASSOCIATED},
        [i \in DOMAIN bss.chains |-> [chain_id |-> i - 1, level |-> bss.chains[i]]])

\* getScanResults (scanner_impl.cpp, scan_utils.cpp, the parcels): every result is
\* a BSS the driver knew during the dump, none comes twice, and when the driver's
\* list did not change they are all the BSSs with an SSID element, in order.
ScanResultsAreFaithful ==
    Answered({"scanResults"}) =>
      LET named(s) == SelectSeq(s, LAMBDA b : SsidElements(b) # <<>>)
          value == answer.value
      IN  /\ \A i \in DOMAIN value : \E b \in history.bss :
               SsidElements(b) # <<>> /\ value[i] = ResultOf(b)
          /\ \A i, j \in DOMAIN value : i # j => value[i].bssid # value[j].bssid
          /\ history.changes = 0 /\ ~history.fault =>
               value = [i \in DOMAIN named(world.bss) |-> ResultOf(named(world.bss)[i])]

\* signalPoll and getPacketCounters (client_interface_impl.cpp) answer exactly when
\* the kernel has the station of the interface's BSSID with a rate, and then with
\* its values: a signed signal, whole Mbit/s, the frequency of the association.
StationAnswersAreExact ==
    [][(call \in {"signalPoll", "packetCounters"} /\ call' = "idle") =>
          LET station == world.station
              known == station.mac = link.bssid /\ station.bitrate > 0
              values == IF call = "packetCounters" THEN <<station.packets, station.failed>>
                        ELSE <<station.rssi, station.bitrate \div 10, link.freq>>
          IN  /\ answer'.ok = (known /\ ~history.fault)
              /\ answer'.ok => (answer'.value = values)
      ]_vars
=============================================================================
