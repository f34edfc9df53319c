---------------------------- MODULE ScanRequests ----------------------------
(***************************************************************************)
(* What a scan request says by the time it reaches the driver: the settings  *)
(* of the framework go through a parcel, are cut down to the capabilities of *)
(* the device (scanning/scanner_impl.cpp), and become a netlink packet or,   *)
(* for PNO scans over the Offload HAL, a configuration of the HAL            *)
(* (scanning/offload/offload_scan_utils.cpp).  Results and statistics of the *)
(* HAL take the way back.  Which of its scans runs and who is told about it  *)
(* is the subject of PnoScanner and ClientStation; a scanner is valid here.  *)
(***************************************************************************)
EXTENDS ScanUtils, Parcels

CONSTANTS
    Word,             \* modulus of a uint32_t, 2^32 in the code
    Devices,          \* [caps, features, offload]: what a device may report and have
    SingleParcels,    \* parcels of SingleScanSettings, as the framework writes them
    PnoParcels,       \* parcels of PnoSettings
    HalReports,       \* what the HAL may report, sequences of its ScanResult
    HalStats,         \* its ScanStats
    InterfaceIndex

Uint16 == 0 .. 65535
Uint32 == {n \in Nat : n \div 65536 \in Uint16}

ASSUME WordAssumption == Word \in Nat \ {0, 1} /\ Word - 1 \in Uint32

ASSUME InterfaceAssumption == InterfaceIndex \in Nat

\* ScanResult of the HAL's interface; the capability is a bit field of 16 bits.
HalResult == [ssid : Seq(Byte), bssid : Seq(Byte), frequency : Nat, rssi : Int,
              capability : Uint16]

ASSUME HalReportsAssumption == HalReports \subseteq Seq(HalResult)

\* ScanCapabilities: numbers of SSIDs and match sets are bytes.
Capabilities == [max_num_scan_ssids : Byte, max_num_sched_scan_ssids : Byte,
                 max_match_sets : Byte, max_num_scan_plans : Uint32,
                 max_scan_plan_interval : Uint32, max_scan_plan_iterations : Uint32]

ScanFeatures == [supports_random_mac_oneshot_scan : BOOLEAN,
                 supports_random_mac_sched_scan : BOOLEAN,
                 supports_low_span_oneshot_scan : BOOLEAN,
                 supports_low_power_oneshot_scan : BOOLEAN,
                 supports_high_accuracy_oneshot_scan : BOOLEAN]

ASSUME DevicesAssumption ==
    Devices \subseteq [caps : Capabilities, features : ScanFeatures, offload : BOOLEAN]

Ssid == {s \in Seq(Byte) : Len(s) <= 32}

SingleScanSettings == [scan_type : {"LOW_SPAN", "LOW_POWER", "HIGH_ACCURACY"},
                       channel_settings : Seq([frequency : Uint32]),
                       hidden_networks : Seq([ssid : Ssid])]

PnoSettings == [interval_ms : Int, min_2g_rssi : Int, min_5g_rssi : Int,
                pno_networks : Seq([is_hidden : BOOLEAN, ssid : Ssid])]

\* The channels fit the 16 bits of an attribute's length.
ASSUME SingleParcelsAssumption ==
    \A p \in SingleParcels :
      /\ ReadSingleScanSettings(p) \in Seq(SingleScanSettings)
      /\ \A s \in ToSet(ReadSingleScanSettings(p)) : Len(s.channel_settings) < 8192

ASSUME PnoParcelsAssumption ==
    \A p \in PnoParcels : ReadPnoSettings(p) \in Seq(PnoSettings)

VARIABLES
    device,                         \* scan_capabilities_, wiphy_features_ and
                                    \* offload_scan_supported_
    associated,                     \* client_interface_->IsAssociated()
    pno_scan_event_handler,         \* has the framework subscribed?
    pno_scan_running_over_offload,
    pno_scan_results_from_offload,
    pno_settings,                   \* kept for the fall back to netlink
    cached_scan_results,            \* of the HAL, see OffloadScanManager
    last_report,                    \* what the HAL reported last
    news,                           \* who caused the last OnPnoNetworkFound that the
                                    \* subscriber of now received for the scan of now
    call,                           \* the last call: [name, parcel]
    kernel,                         \* the request it sent to the kernel, if any
    hal,                            \* the one it sent to the HAL, if any
    answer                          \* what it returned

pnoVars == <<pno_scan_running_over_offload, pno_scan_results_from_offload, pno_settings,
             news>>
halVars == <<cached_scan_results, last_report>>
ioVars == <<call, kernel, hal, answer>>
vars == <<device, associated, pno_scan_event_handler, pnoVars, halVars, ioVars>>

scan_capabilities == device.caps
wiphy_features == device.features
offload_scan_supported == device.offload

kFastScanIterations == 3
kSlowScanIntervalMultiplier == 3

-----------------------------------------------------------------------------
(* One-shot scans *)

IsScanTypeSupported(scan_type) ==
    CASE scan_type = "LOW_SPAN"      -> wiphy_features.supports_low_span_oneshot_scan
      [] scan_type = "LOW_POWER"     -> wiphy_features.supports_low_power_oneshot_scan
      [] scan_type = "HIGH_ACCURACY" -> wiphy_features.supports_high_accuracy_oneshot_scan

(* Mutant: the wildcard is not counted.                                      *)
AddHiddenSsidPlusWildcard(ssids, network) ==
    IF Len(ssids) > scan_capabilities.max_num_scan_ssids THEN ssids
    ELSE Append(ssids, network.ssid)

AddHiddenSsid(ssids, network) ==
    IF Len(ssids) + 1 > scan_capabilities.max_num_scan_ssids THEN ssids
    ELSE Append(ssids, network.ssid)

\* A wildcard first, then the hidden networks there is room for.
SingleScanSsids(hidden_networks) ==
    LET ssids[n \in 0 .. Len(hidden_networks)] ==
          IF n = 0 THEN <<<<>>>> ELSE AddHiddenSsid(ssids[n - 1], hidden_networks[n])
    IN  ssids[Len(hidden_networks)]

Frequencies(channel_settings) ==
    [i \in DOMAIN channel_settings |-> channel_settings[i].frequency]

SingleScanRequest(s) ==
    ScanRequest(InterfaceIndex,
                wiphy_features.supports_random_mac_oneshot_scan /\ ~associated,
                IF IsScanTypeSupported(s.scan_type) THEN s.scan_type ELSE "DEFAULT",
                SingleScanSsids(s.hidden_networks),
                Frequencies(s.channel_settings))

-----------------------------------------------------------------------------
(* PNO scans *)

(* Mutant: a hidden network that cannot be probed for is matched all the same. *)
AddPnoNetworkKeepHidden(lists, network) ==
    LET probe == network.is_hidden /\
                 Len(lists.scan_ssids) + 1 <= scan_capabilities.max_num_sched_scan_ssids
        room == Len(lists.match_ssids) + 1 <= scan_capabilities.max_match_sets
    IN  [scan_ssids |-> IF probe THEN Append(lists.scan_ssids, network.ssid)
                        ELSE lists.scan_ssids,
         match_ssids |-> IF room THEN Append(lists.match_ssids, network.ssid)
                         ELSE lists.match_ssids]

\* A hidden network is only matched if it can be probed for; a network that is
\* probed for may find no room among the match sets.
AddPnoNetwork(lists, network) ==
    LET full == Len(lists.scan_ssids) + 1 > scan_capabilities.max_num_sched_scan_ssids
        scan_ssids == IF network.is_hidden THEN Append(lists.scan_ssids, network.ssid)
                      ELSE lists.scan_ssids
        match_ssids == IF Len(lists.match_ssids) + 1 > scan_capabilities.max_match_sets
                       THEN lists.match_ssids ELSE Append(lists.match_ssids, network.ssid)
    IN  IF network.is_hidden /\ full THEN lists
        ELSE [scan_ssids |-> scan_ssids, match_ssids |-> match_ssids]

ParsePnoSettings(networks, scan_ssids) ==
    LET lists[n \in 0 .. Len(networks)] ==
          IF n = 0 THEN [scan_ssids |-> scan_ssids, match_ssids |-> <<>>]
          ELSE AddPnoNetwork(lists[n - 1], networks[n])
    IN  lists[Len(networks)]

(* Mutant: the fast interval is compared, not the slow one.                  *)
GenerateIntervalSettingFastOnly(interval_ms) ==
    LET fast == interval_ms % Word
        supported == /\ scan_capabilities.max_num_scan_plans >= 2
                     /\ (scan_capabilities.max_scan_plan_interval * kMsecPerSec) % Word >= fast
                     /\ scan_capabilities.max_scan_plan_iterations >= kFastScanIterations
    IN  IF supported
        THEN [plans |-> <<[interval_ms |-> fast, n_iterations |-> kFastScanIterations]>>,
              final_interval_ms |-> (fast * kSlowScanIntervalMultiplier) % Word]
        ELSE [plans |-> <<>>, final_interval_ms |-> fast]

\* Three fast scans and then slow ones if the device can do both.
GenerateIntervalSetting(interval_ms) ==
    LET fast == interval_ms % Word
        slow == (fast * kSlowScanIntervalMultiplier) % Word
        supported == /\ scan_capabilities.max_num_scan_plans >= 2
                     /\ (scan_capabilities.max_scan_plan_interval * kMsecPerSec) % Word >= slow
                     /\ scan_capabilities.max_scan_plan_iterations >= kFastScanIterations
    IN  IF supported
        THEN [plans |-> <<[interval_ms |-> fast, n_iterations |-> kFastScanIterations]>>,
              final_interval_ms |-> slow]
        ELSE [plans |-> <<>>, final_interval_ms |-> fast]

\* StartPnoScanDefault; the frequency list is empty, which means all.
PnoScanRequest(s) ==
    StartScheduledScanRequest(InterfaceIndex, GenerateIntervalSetting(s.interval_ms),
        [g2 |-> s.min_2g_rssi, g5 |-> s.min_5g_rssi],
        wiphy_features.supports_random_mac_sched_scan /\ ~associated,
        wiphy_features.supports_low_power_oneshot_scan,
        ParsePnoSettings(s.pno_networks, <<<<>>>>), <<>>)

-----------------------------------------------------------------------------
(* The Offload HAL *)

createScanParam(ssid_list, frequency_list, scan_interval_ms) ==
    [disconnectedModeScanIntervalMs |-> scan_interval_ms, frequencyList |-> frequency_list,
     ssidList |-> ssid_list]

\* A network without a flag is left out.  The threshold is narrowed to a byte.
createScanFilter(ssids, flags, rssi_threshold) ==
    [rssiThreshold |-> Signed(IntBytes(rssi_threshold, 1)),
     preferredNetworkInfoList |->
        [i \in 1 .. Min({Len(ssids), Len(flags)}) |-> [ssid |-> ssids[i], flags |-> flags[i]]]]

\* StartPnoScanOffload: no wildcard, and only the threshold of 5 GHz.
HalRequest(s) ==
    LET lists == ParsePnoSettings(s.pno_networks, <<>>)
        match_security == [i \in DOMAIN lists.match_ssids |-> 0]
    IN  [param  |-> createScanParam(lists.scan_ssids, <<>>, s.interval_ms % Word),
         filter |-> createScanFilter(lists.match_ssids, match_security, s.min_5g_rssi)]

\* No information elements, and the time of the report, here 0.
convertToNativeScanResults(results) ==
    [i \in DOMAIN results |->
        NativeScanResult(results[i].ssid, results[i].bssid, <<>>, results[i].frequency,
                         results[i].rssi, 0, results[i].capability, FALSE, <<>>)]

convertToNativeScanStats(stats) ==
    LET Total(Of(_)) == FoldLeft(LAMBDA sum, r : (sum + Of(r)) % Word, 0, stats.scanRecord)
    IN  [num_scans_requested_by_wifi |-> stats.numScansRequestedByWifi,
         num_scans_serviced_by_wifi |-> stats.numScansServicedByWifi,
         subscription_duration_ms |-> stats.subscriptionDurationMs,
         scan_duration_ms |-> Total(LAMBDA r : r.durationMs),
         num_channels_scanned |-> Total(LAMBDA r : r.numChannelsScanned),
         histogram_channels |-> stats.histogramChannelsScanned]

-----------------------------------------------------------------------------
(* Calls and events *)

\* What a step sends and returns.
Does(c, to_kernel, to_hal, result) ==
    /\ call' = c
    /\ kernel' = to_kernel
    /\ hal' = to_hal
    /\ answer' = result

Event(name) == Does([name |-> name], <<>>, <<>>, <<>>)

Init ==
    /\ device \in Devices
    /\ associated \in BOOLEAN
    /\ pno_scan_event_handler = FALSE
    /\ pno_scan_running_over_offload = FALSE
    /\ pno_scan_results_from_offload = FALSE
    /\ pno_settings = <<>>
    /\ news = "none"
    /\ cached_scan_results = <<>>
    /\ last_report = <<>>
    /\ call = [name |-> "none"] /\ kernel = <<>> /\ hal = <<>> /\ answer = <<>>

\* Binder reads the parcel first, and does not make the call if it cannot.
scan(parcel) ==
    LET settings == ReadSingleScanSettings(parcel)
    IN  /\ Does([name |-> "scan", parcel |-> parcel],
                [i \in DOMAIN settings |-> SingleScanRequest(settings[i])], <<>>, <<>>)
        /\ UNCHANGED <<device, associated, pno_scan_event_handler, pnoVars, halVars>>

\* The HAL is tried first; whether it takes the scan is up to it.
startPnoScan(parcel, hal_ok) ==
    LET settings == ReadPnoSettings(parcel)
    IN  /\ settings # <<>>
        /\ hal_ok => offload_scan_supported
        /\ pno_settings' = settings
        /\ pno_scan_results_from_offload' = FALSE
        /\ pno_scan_running_over_offload' = IF offload_scan_supported THEN hal_ok
                                            ELSE pno_scan_running_over_offload
        /\ news' = "none"
        /\ Does([name |-> "pno", parcel |-> parcel],
                IF hal_ok THEN <<>> ELSE <<PnoScanRequest(settings[1])>>,
                IF offload_scan_supported THEN <<HalRequest(settings[1])>> ELSE <<>>, <<>>)
        /\ UNCHANGED <<device, associated, pno_scan_event_handler, halVars>>

\* A parcel with a null network.
startPnoScanRefused(parcel) ==
    /\ ReadPnoSettings(parcel) = <<>>
    /\ Event("refused")
    /\ UNCHANGED <<device, associated, pno_scan_event_handler, pnoVars, halVars>>

stopPnoScan ==
    /\ pno_scan_running_over_offload' = FALSE
    /\ Does([name |-> "stop"],
            IF offload_scan_supported /\ pno_scan_running_over_offload THEN <<>>
            ELSE <<StopScheduledScanRequest(InterfaceIndex)>>, <<>>, <<>>)
    /\ UNCHANGED <<device, associated, pno_scan_event_handler, pno_settings, news,
                   pno_scan_results_from_offload, halVars>>

\* The scan over the HAL is stopped and started over netlink with the settings
\* kept; the kernel is sent the second of two requests only.
OnOffloadError ==
    /\ pno_scan_running_over_offload
    /\ pno_scan_running_over_offload' = FALSE
    /\ Does([name |-> "fallback"], <<PnoScanRequest(pno_settings[1])>>, <<>>, <<>>)
    /\ UNCHANGED <<device, associated, pno_scan_event_handler, pno_settings, news,
                   pno_scan_results_from_offload, halVars>>

\* ReportScanResults of the manager and OnOffloadScanResult of the scanner.
ReportScanResults(report) ==
    /\ offload_scan_supported
    /\ last_report' = report
    /\ cached_scan_results' = convertToNativeScanResults(report)
    /\ IF pno_scan_running_over_offload
       THEN /\ pno_scan_results_from_offload' = TRUE
            /\ news' = IF pno_scan_event_handler THEN "hal" ELSE news
       ELSE UNCHANGED <<pno_scan_results_from_offload, news>>
    /\ Event("report")
    /\ UNCHANGED <<device, associated, pno_scan_event_handler, pno_settings,
                   pno_scan_running_over_offload>>

(* Mutant: the notification goes out, the source of the results is not noted. *)
OnSchedScanResultsReadyNoSwitch ==
    /\ pno_settings # <<>>
    /\ news' = IF pno_scan_event_handler THEN "kernel" ELSE news
    /\ Event("sched_scan_results")
    /\ UNCHANGED <<device, associated, pno_scan_event_handler, pno_settings, halVars,
                   pno_scan_results_from_offload, pno_scan_running_over_offload>>

\* The kernel has scheduled scan results; the end of a scan is PnoScanner's.
OnSchedScanResultsReady ==
    /\ pno_settings # <<>>
    /\ IF pno_scan_event_handler
       THEN /\ pno_scan_results_from_offload' = FALSE
            /\ news' = "kernel"
       ELSE UNCHANGED <<pno_scan_results_from_offload, news>>
    /\ Event("sched_scan_results")
    /\ UNCHANGED <<device, associated, pno_scan_event_handler, pno_settings, halVars,
                   pno_scan_running_over_offload>>

\* scan_started_ is ClientStation's: without a scan nothing is sent.
abortScan(scan_started) ==
    /\ Does([name |-> "abort"],
            IF scan_started THEN <<AbortScanRequest(InterfaceIndex)>> ELSE <<>>, <<>>, <<>>)
    /\ UNCHANGED <<device, associated, pno_scan_event_handler, pnoVars, halVars>>

\* How the kernel answers GET_SCAN is the subject of Queries.
getPnoScanResults ==
    /\ IF pno_scan_results_from_offload
       THEN Does([name |-> "results"], <<>>, <<>>,
                 FlattenSeq([i \in DOMAIN cached_scan_results |->
                     ReadNativeScanResult(WriteNativeScanResult(cached_scan_results[i]))]))
       ELSE Does([name |-> "results"], <<GetScanResultRequest(InterfaceIndex)>>, <<>>, <<>>)
    /\ UNCHANGED <<device, associated, pno_scan_event_handler, pnoVars, halVars>>

\* OffloadScanManager::getScanStats, of a HAL that answers.
getScanStats(stats) ==
    /\ offload_scan_supported
    /\ Does([name |-> "stats", stats |-> stats], <<>>, <<>>,
            ReadNativeScanStats(WriteNativeScanStats(convertToNativeScanStats(stats))))
    /\ UNCHANGED <<device, associated, pno_scan_event_handler, pnoVars, halVars>>

\* subscribePnoScanEvents and unsubscribePnoScanEvents
SubscribePno(on) ==
    /\ pno_scan_event_handler # on
    /\ pno_scan_event_handler' = on
    /\ news' = "none"
    /\ Event("subscribe")
    /\ UNCHANGED <<device, associated, pno_settings, pno_scan_running_over_offload,
                   pno_scan_results_from_offload, halVars>>

\* An MLME event, handled between two calls.
MlmeEvent ==
    /\ associated' = ~associated
    /\ Event("mlme")
    /\ UNCHANGED <<device, pno_scan_event_handler, pnoVars, halVars>>

Next ==
    \/ \E p \in SingleParcels : scan(p)
    \/ \E p \in PnoParcels, ok \in BOOLEAN : startPnoScan(p, ok)
    \/ \E p \in PnoParcels : startPnoScanRefused(p)
    \/ stopPnoScan
    \/ OnOffloadError
    \/ \E r \in HalReports : ReportScanResults(r)
    \/ OnSchedScanResultsReady
    \/ getPnoScanResults
    \/ \E started \in BOOLEAN : abortScan(started)
    \/ \E s \in HalStats : getScanStats(s)
    \/ \E on \in BOOLEAN : SubscribePno(on)
    \/ MlmeEvent

Spec == Init /\ [][Next]_vars

-----------------------------------------------------------------------------
(* External: what the kernel reads out of a request, and what it accepts.    *)

Values(packet, id) ==
    LET attrs == IfFound(GetNested(packet.body, id), AttributesOf)
    IN  [i \in DOMAIN attrs |-> RawValue(attrs[i])]

ProbedSsids(packet) == Values(packet, ATTR.SCAN_SSIDS)

ScannedFrequencies(packet) ==
    LET values == Values(packet, ATTR.SCAN_FREQUENCIES)
    IN  [i \in DOMAIN values |-> Unsigned(values[i])]

HasScanFlag(packet, flag) ==
    \E flags \in ToSet(GetInt(packet.body, ATTR.SCAN_FLAGS, 4)) : (flags \div flag) % 2 = 1

MatchSets(packet) ==
    LET sets == Values(packet, ATTR.SCHED_SCAN_MATCH)
    IN  [i \in DOMAIN sets |-> [ssid |-> GetBytes(sets[i], MATCH_ATTR.SSID)[1],
                                rssi |-> GetSigned(sets[i], MATCH_ATTR.RSSI, 4)[1]]]

MatchedSsids(packet) ==
    LET sets == MatchSets(packet) IN [i \in DOMAIN sets |-> sets[i].ssid]

ScanPlans(packet) ==
    LET plans == Values(packet, ATTR.SCHED_SCAN_PLANS)
    IN  [i \in DOMAIN plans |-> [interval |-> GetInt(plans[i], SCHED_SCAN_PLAN.INTERVAL, 4),
                                 iterations |-> GetInt(plans[i], SCHED_SCAN_PLAN.ITERATIONS, 4)]]

\* Only the last plan goes on without end.
AcceptsPlans(plans) ==
    /\ Len(plans) <= scan_capabilities.max_num_scan_plans
    /\ \A i \in DOMAIN plans :
          /\ plans[i].interval # <<>>
          /\ plans[i].interval[1] \in 1 .. scan_capabilities.max_scan_plan_interval
          /\ IF i = Len(plans) THEN plans[i].iterations = <<>>
             ELSE /\ plans[i].iterations # <<>>
                  /\ plans[i].iterations[1] \in
                        1 .. scan_capabilities.max_scan_plan_iterations

AcceptsScheduledScan(packet) ==
    /\ Len(ProbedSsids(packet)) <= scan_capabilities.max_num_sched_scan_ssids
    /\ Len(MatchSets(packet)) <= scan_capabilities.max_match_sets
    /\ \/ AcceptsPlans(ScanPlans(packet)) /\ ScanPlans(packet) # <<>>
       \/ \E ms \in ToSet(GetInt(packet.body, ATTR.SCHED_SCAN_INTERVAL, 4)) : ms > 0

-----------------------------------------------------------------------------
(* Properties *)

Of(names) == call.name \in names

PnoPackets == IF Of({"pno", "fallback"}) THEN ToSet(kernel) ELSE {}

\* A scheduled scan is cut down to what the driver announced, so that the kernel
\* has no reason to refuse it: numbers of SSIDs and match sets, and for scan plans
\* their number, iterations and intervals in seconds.  (For intervals of at least a
\* second that the tripling does not wrap, and drivers that take an SSID at all.)
PnoScanIsAcceptable ==
    \A packet \in PnoPackets :
      LET interval_ms == pno_settings[1].interval_ms
      IN  (/\ interval_ms >= kMsecPerSec
           /\ interval_ms * kSlowScanIntervalMultiplier < Word
           /\ scan_capabilities.max_num_sched_scan_ssids > 0)
          => AcceptsScheduledScan(packet)

CanBeFound(networks, match, probed) ==
    \A ssid \in ToSet(match) : \E n \in ToSet(networks) :
        n.ssid = ssid /\ (n.is_hidden => ssid \in ToSet(probed))

NoneIsLeftOut(caps, networks, match, probed) ==
    LET In(i) == networks[i].ssid \in ToSet(match)
    IN  \A i \in DOMAIN networks : ~In(i) =>
          \/ networks[i].is_hidden /\ Len(probed) >= caps.max_num_sched_scan_ssids
          \/ /\ Len(match) >= caps.max_match_sets
             /\ \A j \in DOMAIN networks : j > i /\ In(j) =>
                   \E k \in 1 .. i - 1 : networks[k].ssid = networks[j].ssid

AreRight(caps, networks, match, probed) ==
    CanBeFound(networks, match, probed) /\ NoneIsLeftOut(caps, networks, match, probed)

\* The networks a scheduled scan or the HAL matches are the right ones.  Each can be
\* found: unless its beacon announces it (not hidden), it is probed for by name.  And
\* none is left out that there was room for: the match sets are full and hold none
\* that only came later, or it is hidden and the list of SSIDs is full.
NetworksAreRight ==
    LET networks == pno_settings[1].pno_networks
        Matched(h) == LET list == h.filter.preferredNetworkInfoList
                      IN  [i \in DOMAIN list |-> list[i].ssid]
    IN  /\ \A packet \in PnoPackets :
             AreRight(scan_capabilities, networks, MatchedSsids(packet), ProbedSsids(packet))
        /\ \A h \in ToSet(hal) :
             AreRight(scan_capabilities, networks, Matched(h), h.param.ssidList)

\* A one-shot scan asks for what the framework meant, null lists included: all
\* networks (the wildcard) and the first hidden ones the device has room for, the
\* channels or all of them; a random address whenever the device has it and the
\* station is not associated, and never otherwise.
ScanIsWhatWasMeant ==
    Of({"scan"}) =>
      LET settings == ReadSingleScanSettings(call.parcel)
      IN  /\ kernel = <<>> <=> settings = <<>>
          /\ kernel # <<>> =>
               LET packet == kernel[1]
                   hidden == settings[1].hidden_networks
                   channels == settings[1].channel_settings
                   limit == scan_capabilities.max_num_scan_ssids
               IN  /\ ProbedSsids(packet) =
                         <<<<>>>> \o [i \in 1 .. Max({0, Min({Len(hidden), limit - 1})}) |->
                                       hidden[i].ssid]
                   /\ ScannedFrequencies(packet) =
                         [i \in DOMAIN channels |-> channels[i].frequency]
                   /\ HasAttribute(packet.body, ATTR.SCAN_FREQUENCIES) <=> channels # <<>>
                   /\ HasScanFlag(packet, SCAN_FLAG.RANDOM_ADDR) <=>
                         /\ wiphy_features.supports_random_mac_oneshot_scan
                         /\ ~associated

\* Who was told of networks (OnPnoNetworkFound) can read them: from the kernel if
\* the kernel found them, otherwise what the HAL reported last, all of it and
\* nothing of earlier reports, whatever started, failed or moved since.
NewsCanBeRead ==
    Of({"results"}) /\ news # "none" =>
      IF news = "kernel" THEN kernel # <<>>
      ELSE /\ kernel = <<>>
           /\ Len(answer) = Len(last_report)
           /\ \A i \in DOMAIN answer :
                 /\ answer[i].ssid = last_report[i].ssid
                 /\ answer[i].bssid = last_report[i].bssid
                 /\ answer[i].frequency = last_report[i].frequency
                 /\ answer[i].signal_mbm = last_report[i].rssi
                 /\ answer[i].capability = last_report[i].capability
=============================================================================
