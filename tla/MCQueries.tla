----------------------------- MODULE MCQueries -----------------------------
(***************************************************************************)
(* Instances of Queries.  Two wiphys, the first with channels in both bands  *)
(* and one beyond the 5 GHz band; a kernel with and one without split dumps. *)
(***************************************************************************)
EXTENDS Queries

MCCaps(plans) ==
    [max_num_scan_ssids |-> 3, max_num_sched_scan_ssids |-> 2, max_match_sets |-> 4,
     max_num_scan_plans |-> plans, max_scan_plan_interval |-> plans * 300,
     max_scan_plan_iterations |-> plans * 50]

MCWiphy0(supports, ext_bytes, plans) ==
    [index |-> 0, caps |-> MCCaps(plans), supports |-> supports, ext_bytes |-> ext_bytes,
     bands |-> <<<<2412>>, <<5180, 5260, 5865>>>>]

MCWiphy1 ==
    [index |-> 1, caps |-> MCCaps(0), supports |-> {}, ext_bytes |-> 4, bands |-> <<<<2484>>>>]

MCBss(mac, elements, boottime, beacon, status, signal, chains) ==
    [bssid |-> <<2, 0, 0, 0, 0, mac>>, freq |-> 2412, elements |-> elements,
     boottime |-> boottime, tsf |-> 70, beacon_tsf |-> beacon, signal |-> signal,
     capability |-> 1025, status |-> status, chains |-> chains]

MCSsid(body) == [id |-> 0, body |-> body]
MCRates == [id |-> 1, body |-> <<130>>]

MCBssA == MCBss(10, <<MCSsid(<<65, 66, 67>>), MCRates>>, 5999, -1, 1, -5300, <<-53, -60>>)
MCBssB == MCBss(11, <<MCRates, MCSsid(<<>>)>>, -1, 90, -1, -8000, <<>>)
MCBssC == MCBss(12, <<MCRates>>, 7000, -1, -1, -9000, <<-90>>)
MCBssD == MCBss(13, <<MCRates, MCSsid(<<68>>)>>, -1, -1, 2, 300, <<3>>)
MCNewBss == {MCBssD}

MCIface(wiphy, index, name) ==
    [wiphy |-> wiphy, index |-> index, name |-> name, mac |-> <<2, 0, 0, 0, wiphy, index>>]

MCStation(bitrate) ==
    [mac |-> <<2, 0, 0, 0, 0, 10>>, packets |-> 300, failed |-> 2, rssi |-> -61,
     bitrate |-> bitrate]

MCWorld(wiphys, protocol, bss, bitrate) ==
    [wiphys |-> wiphys, filters |-> protocol = 1,
     channels |-> (2412 :> "enabled" @@ 5180 :> "enabled" @@ 5260 :> "dfs_usable"
                   @@ 5865 :> "enabled" @@ 2484 :> "no_ir"),
     ifaces |-> <<MCIface(0, 7, <<119, 108>>), MCIface(0, 0, <<>>), MCIface(0, 8, <<112>>),
                  MCIface(1, 9, <<119, 49>>)>>,
     bss |-> bss, station |-> MCStation(bitrate), country |-> <<85, 83>>,
     protocol |-> protocol]

MCWorlds ==
    {MCWorld(<<MCWiphy0({"random_mac_oneshot", "low_span", "high_accuracy"}, 4, 2)>>, 1,
             <<MCBssA, MCBssB, MCBssC>>, 725),
     MCWorld(<<MCWiphy0({"random_mac_sched", "low_power", "high_accuracy"}, 3, 0), MCWiphy1>>,
             0, <<MCBssB>>, 0)}

MCLinks ==
    {[associated |-> TRUE, bssid |-> <<2, 0, 0, 0, 0, 10>>, freq |-> 2412],
     [associated |-> FALSE, bssid |-> <<>>, freq |-> 0]}
=============================================================================
