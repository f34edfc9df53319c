-------------------------- MODULE MCScanRequests --------------------------
(***************************************************************************)
(* Instances of ScanRequests.  A second has 10 "milliseconds" and a word     *)
(* wraps at 1000, so that every comparison of GenerateIntervalSetting can go *)
(* either way and both multiplications can wrap.                             *)
(***************************************************************************)
EXTENDS ScanRequests

MCCaps(single, sched, match, plans, interval, iterations) ==
    [max_num_scan_ssids |-> single, max_num_sched_scan_ssids |-> sched,
     max_match_sets |-> match, max_num_scan_plans |-> plans,
     max_scan_plan_interval |-> interval, max_scan_plan_iterations |-> iterations]

MCFeatures(random, types) ==
    [supports_random_mac_oneshot_scan |-> random, supports_random_mac_sched_scan |-> random,
     supports_low_span_oneshot_scan |-> "LOW_SPAN" \in types,
     supports_low_power_oneshot_scan |-> "LOW_POWER" \in types,
     supports_high_accuracy_oneshot_scan |-> "HIGH_ACCURACY" \in types]

MCDevice(caps, features, offload) ==
    [caps |-> caps, features |-> features, offload |-> offload]

\* The driver without limits of its own announces the largest interval there is.
MCDevices ==
    {MCDevice(MCCaps(1, 0, 1, 0, 0, 0), MCFeatures(FALSE, {}), FALSE),
     MCDevice(MCCaps(2, 1, 2, 2, 7, 5), MCFeatures(TRUE, {"LOW_POWER"}), TRUE),
     MCDevice(MCCaps(3, 2, 1, 2, 6, 2), MCFeatures(TRUE, {"LOW_SPAN", "LOW_POWER"}), FALSE),
     MCDevice(MCCaps(4, 2, 2, 2, 99, 3), MCFeatures(FALSE, {"HIGH_ACCURACY"}), TRUE),
     MCDevice(MCCaps(4, 4, 3, 1, 999, 999), MCFeatures(TRUE, {}), TRUE),
     MCDevice(MCCaps(4, 3, 2, 2, 101, 3), MCFeatures(TRUE, {"LOW_POWER"}), FALSE)}

MCChannel(f) == [frequency |-> f]
MCHidden(n) == [ssid |-> <<n>>]

MCSingle(type, channels, hidden) ==
    WriteSingleScanSettings([scan_type |-> type, channel_settings |-> channels,
                             hidden_networks |-> hidden])

\* From Java: null lists, a null element, a type this version does not know.
MCSingleParcels ==
    {MCSingle("LOW_POWER", <<MCChannel(2412), MCChannel(5180)>>, <<MCHidden(1)>>),
     MCSingle("LOW_SPAN", <<>>, <<MCHidden(1), MCHidden(2), MCHidden(3)>>),
     MCSingle("HIGH_ACCURACY", <<MCChannel(5180)>>, <<>>),
     <<"LOW_POWER", -1, -1>>, <<"LOW_SPAN", -1, 1, 0, <<1>>>>, <<"DEFAULT", 0, 0>>}

MCPno(interval, hidden) ==
    WritePnoSettings([interval_ms |-> interval, min_2g_rssi |-> -80, min_5g_rssi |-> -77,
                      pno_networks |-> [i \in DOMAIN hidden |->
                                          [is_hidden |-> hidden[i], ssid |-> <<i>>]]])

MCPnoParcels ==
    {MCPno(20, <<TRUE, TRUE, FALSE>>), MCPno(25, <<FALSE, TRUE, TRUE>>),
     MCPno(20, <<TRUE, FALSE, TRUE>>), MCPno(20, <<FALSE, FALSE, FALSE>>),
     MCPno(20, <<TRUE, TRUE, TRUE>>), MCPno(10, <<FALSE>>), MCPno(5, <<>>),
     MCPno(30, <<TRUE>>), MCPno(335, <<TRUE>>), MCPno(330, <<FALSE, TRUE>>),
     \* The second network twice.
     WritePnoSettings([interval_ms |-> 20, min_2g_rssi |-> -80, min_5g_rssi |-> -77,
                       pno_networks |-> <<[is_hidden |-> TRUE, ssid |-> <<1>>],
                                          [is_hidden |-> FALSE, ssid |-> <<2>>],
                                          [is_hidden |-> FALSE, ssid |-> <<3>>],
                                          [is_hidden |-> FALSE, ssid |-> <<2>>]>>]),
     <<20, -80, -77, -1>>, <<20, -80, -77, 1, 0, 0, <<1>>>>}

MCResult(n) ==
    [ssid |-> <<n>>, bssid |-> <<2, 0, 0, 0, 0, n>>, frequency |-> 2412, rssi |-> -60 - n,
     capability |-> 17]

MCHalReports == {<<MCResult(1), MCResult(2)>>, <<MCResult(3)>>}

MCHalStats ==
    {[numScansRequestedByWifi |-> 4, numScansServicedByWifi |-> 3,
      subscriptionDurationMs |-> 700,
      scanRecord |-> <<[durationMs |-> 30, numChannelsScanned |-> 11],
                       [durationMs |-> 45, numChannelsScanned |-> 2]>>,
      histogramChannelsScanned |-> <<1, 2>>]}
=============================================================================
