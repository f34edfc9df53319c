---------------------------- MODULE NetlinkUtils ----------------------------
(***************************************************************************)
(* The requests NetlinkUtils (net/netlink_utils.cpp) sends and what it reads *)
(* out of the packets of the response.  Requests and responses travel        *)
(* through NetlinkTransport; here a response is the sequence of packets      *)
(* SendMessageAndGetResponses hands over.                                    *)
(***************************************************************************)
EXTENDS NL80211, NL80211Attr

\* Message types: the number the kernel gave the nl80211 family, and errors.
FamilyId == "nl80211"
NLMSG_ERROR == "NLMSG_ERROR"

\* The single good packet SendMessageAndGetSingleResponse insists on.
SingleResponse(response) ==
    IF Len(response) = 1 /\ response[1].type = FamilyId THEN <<response[1].body>> ELSE <<>>

-----------------------------------------------------------------------------
(* Requests *)

GetWiphyIndexRequest == AddFlag(NL80211Packet(FamilyId, "GET_WIPHY"), "NLM_F_DUMP")

GetInterfacesRequest(wiphy_index) ==
    PacketAdd(AddFlag(NL80211Packet(FamilyId, "GET_INTERFACE"), "NLM_F_DUMP"),
              IntAttr(ATTR.WIPHY, wiphy_index, 4))

SetInterfaceModeRequest(interface_index) ==
    PacketAdd(PacketAdd(AddFlag(NL80211Packet(FamilyId, "SET_INTERFACE"), "NLM_F_ACK"),
                        IntAttr(ATTR.IFINDEX, interface_index, 4)),
              IntAttr(ATTR.IFTYPE, IFTYPE.STATION, 4))

GetProtocolFeaturesRequest == NL80211Packet(FamilyId, "GET_PROTOCOL_FEATURES")

GetWiphyInfoRequest(wiphy_index, split) ==
    LET get_wiphy == PacketAdd(NL80211Packet(FamilyId, "GET_WIPHY"),
                               IntAttr(ATTR.WIPHY, wiphy_index, 4))
    IN  IF split
        THEN AddFlag(PacketAdd(get_wiphy, BaseNL80211Attr(ATTR.SPLIT_WIPHY_DUMP, <<>>)),
                     "NLM_F_DUMP")
        ELSE get_wiphy

GetStationInfoRequest(interface_index, mac_address) ==
    PacketAdd(PacketAdd(NL80211Packet(FamilyId, "GET_STATION"),
                        IntAttr(ATTR.IFINDEX, interface_index, 4)),
              BaseNL80211Attr(ATTR.MAC, mac_address))

GetCountryCodeRequest == NL80211Packet(FamilyId, "GET_REG")

-----------------------------------------------------------------------------
(* Wiphy index, interfaces, protocol features, country *)

\* The packets up to the first one a loop over the response rejects.
Accepted(response, Good(_)) ==
    SubSeq(response, 1, SelectInSeq(Append(response, [type |-> NLMSG_ERROR]),
                                    LAMBDA p : ~Good(p)) - 1)

\* Every packet overwrites the index, also when a later one is rejected.
GetWiphyIndex(response, wiphy_index) ==
    LET Index(p) == GetInt(p.body, ATTR.WIPHY, 4)
        good == Accepted(response, LAMBDA p : /\ p.type = FamilyId
                                              /\ p.command = "NEW_WIPHY"
                                              /\ Index(p) # <<>>)
    IN  [ok  |-> response # <<>> /\ Len(good) = Len(response),
         out |-> IF good = <<>> THEN wiphy_index ELSE Index(Last(good))[1]]

InterfaceInfo(index, name, mac_address) ==
    [index |-> index, name |-> name, mac_address |-> mac_address]

(* Mutant: a pseudo interface fails the call like a broken packet.           *)
GetInterfacesNoPseudo(response) ==
    LET good == Accepted(response, LAMBDA p :
                    /\ p.type = FamilyId
                    /\ GetInt(p.body, ATTR.IFINDEX, 4) # <<>>)
    IN  [ok  |-> response # <<>> /\ Len(good) = Len(response),
         out |-> [i \in DOMAIN good |->
                    InterfaceInfo(GetInt(good[i].body, ATTR.IFINDEX, 4)[1],
                                  GetString(good[i].body, ATTR.IFNAME)[1],
                                  GetBytes(good[i].body, ATTR.MAC)[1])]]

\* Pseudo interfaces, without index, name or address, are skipped.
GetInterfaces(response) ==
    LET good == Accepted(response, LAMBDA p : /\ p.type = FamilyId
                                              /\ p.command = "NEW_INTERFACE")
        Real(p) == /\ GetInt(p.body, ATTR.IFINDEX, 4) # <<>>
                   /\ GetString(p.body, ATTR.IFNAME) # <<>>
                   /\ GetBytes(p.body, ATTR.MAC) # <<>>
        real == SelectSeq(good, Real)
    IN  [ok  |-> response # <<>> /\ Len(good) = Len(response),
         out |-> [i \in DOMAIN real |->
                    InterfaceInfo(GetInt(real[i].body, ATTR.IFINDEX, 4)[1],
                                  GetString(real[i].body, ATTR.IFNAME)[1],
                                  GetBytes(real[i].body, ATTR.MAC)[1])]]

GetProtocolFeatures(response) ==
    IfFound(SingleResponse(response), LAMBDA b : GetInt(b, ATTR.PROTOCOL_FEATURES, 4))

SupportsSplitWiphyDump(response) ==
    LET features == GetProtocolFeatures(response)
    IN  /\ features # <<>>
        /\ (features[1] \div PROTOCOL_FEATURE.SPLIT_WIPHY_DUMP) % 2 = 1

GetCountryCode(response) ==
    IfFound(SingleResponse(response), LAMBDA b : GetString(b, ATTR.REG_ALPHA2))

-----------------------------------------------------------------------------
(* Wiphy information *)

InBand(frequency, lower, upper) == lower < frequency /\ frequency < upper

\* The list of BandInfo a channel of the dump goes to, or "none".
FrequencyList(frequency_value, disabled, dfs_state, no_ir) ==
    IF frequency_value = <<>> \/ disabled THEN "none"
    ELSE IF InBand(frequency_value[1], 2400, 2500) THEN "band_2g"
    ELSE IF ~InBand(frequency_value[1], 5000, 5850) THEN "none"
    ELSE IF dfs_state \in {<<DFS.AVAILABLE>>, <<DFS.USABLE>>} \/ no_ir THEN "band_dfs"
    ELSE "band_5g"

BandInfo(band_2g, band_5g, band_dfs) ==
    [band_2g |-> band_2g, band_5g |-> band_5g, band_dfs |-> band_dfs]

\* Channels, [list, value], in their lists, in the order of the dump.
ToBandInfo(channels) ==
    LET In(list) == LET s == SelectSeq(channels, LAMBDA c : c.list = list)
                    IN  [i \in DOMAIN s |-> s[i].value[1]]
    IN  BandInfo(In("band_2g"), In("band_5g"), In("band_dfs"))

ParseBandInfo(body) ==
    LET Freqs(band) == IfFound(GetNested(band, BAND_ATTR.FREQS), GetListOfNestedAttributes)
        Channel(freq) ==
          LET value == GetInt(freq, FREQUENCY_ATTR.FREQ, 4)
          IN  [list |-> FrequencyList(value, HasAttribute(freq, FREQUENCY_ATTR.DISABLED),
                                      GetInt(freq, FREQUENCY_ATTR.DFS_STATE, 4),
                                      HasAttribute(freq, FREQUENCY_ATTR.NO_IR)),
               value |-> value]
        Channels(bands) ==
          LET freqs == FlattenSeq(FlattenSeq([b \in DOMAIN bands |-> Freqs(bands[b])]))
          IN  <<ToBandInfo([i \in DOMAIN freqs |-> Channel(freqs[i])])>>
    IN  IfFound(IfFound(GetNested(body, ATTR.WIPHY_BANDS), GetListOfNestedAttributes),
                Channels)

ScanCapabilities(scan_ssids, sched_scan_ssids, match_sets, plans, interval, iterations) ==
    [max_num_scan_ssids |-> scan_ssids, max_num_sched_scan_ssids |-> sched_scan_ssids,
     max_match_sets |-> match_sets, max_num_scan_plans |-> plans,
     max_scan_plan_interval |-> interval, max_scan_plan_iterations |-> iterations]

\* The first three are mandatory, the limits of scan plans 0 when not announced.
ParseScanCapabilities(body) ==
    LET OrZero(found) == IF found = <<>> THEN 0 ELSE found[1]
        WithPlans(n) ==
          ScanCapabilities(n[1][1], n[2][1], n[3][1],
                           OrZero(GetInt(body, ATTR.MAX_NUM_SCHED_SCAN_PLANS, 4)),
                           OrZero(GetInt(body, ATTR.MAX_SCAN_PLAN_INTERVAL, 4)),
                           OrZero(GetInt(body, ATTR.MAX_SCAN_PLAN_ITERATIONS, 4)))
        Checked(n) == IF <<>> \in ToSet(n) THEN <<>> ELSE <<WithPlans(n)>>
    IN  Checked(<<GetInt(body, ATTR.MAX_NUM_SCAN_SSIDS, 1),
                  GetInt(body, ATTR.MAX_NUM_SCHED_SCAN_SSIDS, 1),
                  GetInt(body, ATTR.MAX_MATCH_SETS, 1)>>)

(* Mutant: the bits of a byte are counted from the other end.               *)
IsExtFeatureFlagSetReversed(bytes, flag) ==
    /\ flag \div 8 < Len(bytes)
    /\ (bytes[flag \div 8 + 1] \div 2^(7 - (flag % 8))) % 2 = 1

IsExtFeatureFlagSet(bytes, flag) ==
    /\ flag \div 8 < Len(bytes)
    /\ (bytes[flag \div 8 + 1] \div 2^(flag % 8)) % 2 = 1

WiphyFeatures(feature_flags, ext) ==
    [supports_random_mac_oneshot_scan |->
        (feature_flags \div FEATURE.SCAN_RANDOM_MAC_ADDR) % 2 = 1,
     supports_random_mac_sched_scan |->
        (feature_flags \div FEATURE.SCHED_SCAN_RANDOM_MAC_ADDR) % 2 = 1,
     supports_low_span_oneshot_scan |-> IsExtFeatureFlagSet(ext, EXT_FEATURE.LOW_SPAN_SCAN),
     supports_low_power_oneshot_scan |-> IsExtFeatureFlagSet(ext, EXT_FEATURE.LOW_POWER_SCAN),
     supports_high_accuracy_oneshot_scan |->
        IsExtFeatureFlagSet(ext, EXT_FEATURE.HIGH_ACCURACY_SCAN)]

\* The information of a wiphy, unless a part of it could not be read.
WiphyInfo(band_info, scan_capabilities, feature_flags, ext_features) ==
    IF band_info = <<>> \/ scan_capabilities = <<>> \/ feature_flags = <<>> THEN <<>>
    ELSE <<[band_info |-> band_info[1], scan_capabilities |-> scan_capabilities[1],
            wiphy_features |-> WiphyFeatures(feature_flags[1], ext_features)]>>

ParseWiphyInfoFromPacket(packet) ==
    IF packet.command # "NEW_WIPHY" THEN <<>>
    ELSE WiphyInfo(ParseBandInfo(packet.body), ParseScanCapabilities(packet.body),
                   GetInt(packet.body, ATTR.FEATURE_FLAGS, 4),
                   FlattenSeq(GetBytes(packet.body, ATTR.EXT_FEATURES)))

\* One packet per wiphy: per attribute id, the payloads of all its packets
\* joined in the order of the dump.  Nothing if a packet has no wiphy index.
MergePacketsForSplitWiphyDump(response) ==
    LET Index(p) == GetInt(p.body, ATTR.WIPHY, 4)
        indices == {Index(response[i])[1] : i \in DOMAIN response}
        Parts(w) == FlattenSeq(FlattenSeq([i \in DOMAIN response |->
                        IF Index(response[i])[1] = w THEN GetAllAttributes(response[i])
                        ELSE <<>>]))
        Packet(w) ==
          LET parts == SelectSeq(Parts(w), LAMBDA a :
                         GetAttributeId(a) \notin {ATTR.WIPHY, ATTR.IFINDEX, ATTR.WDEV})
              ids == {GetAttributeId(parts[i]) : i \in DOMAIN parts}
              Joined(id) == LET same == SelectSeq(parts, LAMBDA a : GetAttributeId(a) = id)
                            IN  FoldLeft(Merge, same[1], Tail(same))
              inOrder[S \in SUBSET ids] ==
                IF S = {} THEN <<>> ELSE Joined(Min(S)) \o inOrder[S \ {Min(S)}]
          IN  PacketAdd(PacketAdd(NL80211Packet(0, "NEW_WIPHY"), IntAttr(ATTR.WIPHY, w, 4)),
                        inOrder[ids])
        packets[S \in SUBSET indices] ==
          IF S = {} THEN <<>> ELSE <<Packet(Min(S))>> \o packets[S \ {Min(S)}]
    IN  IF \E i \in DOMAIN response :
             Index(response[i]) = <<>> \/ GetAllAttributes(response[i]) = <<>>
        THEN <<>> ELSE packets[indices]

\* The first packet of the wiphy asked for that can be read.
GetWiphyInfo(response, wiphy_index, split) ==
    LET packets == IF split THEN MergePacketsForSplitWiphyDump(response) ELSE response
        ours == SelectSeq(packets, LAMBDA p :
                            GetInt(p.body, ATTR.WIPHY, 4) = <<wiphy_index>>)
    IN  IfFound(FlattenSeq([i \in DOMAIN ours |-> ParseWiphyInfoFromPacket(ours[i])]),
                LAMBDA info : <<info>>)

-----------------------------------------------------------------------------
(* Station information *)

StationInfo(tx_packets, tx_failed, tx_bitrate, rssi) ==
    [station_tx_packets |-> tx_packets, station_tx_failed |-> tx_failed,
     station_tx_bitrate |-> tx_bitrate, current_rssi |-> rssi]

GetStationInfo(response) ==
    LET Info(sta_info) ==
          LET tx_good == GetSigned(sta_info, STA_INFO.TX_PACKETS, 4)
              tx_bad == GetSigned(sta_info, STA_INFO.TX_FAILED, 4)
              rssi == GetSigned(sta_info, STA_INFO.SIGNAL, 1)
              tx_bitrate == IfFound(GetNested(sta_info, STA_INFO.TX_BITRATE),
                                    LAMBDA r : GetInt(r, RATE_INFO.BITRATE32, 4))
          IN  IF <<>> \in {tx_good, tx_bad, rssi, tx_bitrate} THEN <<>>
              ELSE <<StationInfo(tx_good[1], tx_bad[1], tx_bitrate[1], rssi[1])>>
    IN  IF SingleResponse(response) # <<>> /\ response[1].command = "NEW_STATION"
        THEN IfFound(GetNested(response[1].body, ATTR.STA_INFO), Info) ELSE <<>>
=============================================================================
