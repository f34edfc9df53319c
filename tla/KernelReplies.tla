--------------------------- MODULE KernelReplies ---------------------------
(***************************************************************************)
(* External: how the kernel answers the queries, as far as wificond relies   *)
(* on it.  `world' is what the kernel has; a dump is a sequence of messages, *)
(* each made from the world as it is when the message is made.               *)
(*                                                                           *)
(*   world.wiphys    sequence of [index, caps, supports, ext_bytes, bands],  *)
(*                   a band being a sequence of frequencies                  *)
(*   world.channels  frequency |-> state in the regulatory domain            *)
(*   world.ifaces    sequence of [wiphy, index, name, mac], index 0 for a     *)
(*                   pseudo interface without a network device               *)
(*   world.bss       sequence of the BSSs the driver knows, see BssAttr      *)
(*   world.station   [mac, packets, failed, rssi, bitrate]                   *)
(*   world.filters   does a dump respect the wiphy index of the request?     *)
(*   world.country   the country code                                        *)
(*   world.protocol  the bitmap of protocol features                         *)
(***************************************************************************)
EXTENDS ScanUtils

ChannelStates == {"disabled", "enabled", "no_ir", "dfs_usable", "dfs_unavailable",
                  "dfs_available"}

Reply(command, attrs) ==
    LET reply[n \in 0 .. Len(attrs)] ==
          IF n = 0 THEN NL80211Packet(FamilyId, command)
          ELSE PacketAdd(reply[n - 1], attrs[n])
    IN  reply[Len(attrs)]

ErrorReply == [NL80211Packet(NLMSG_ERROR, "none") EXCEPT !.flags = {}]

Optional(condition, attr) == IF condition THEN <<attr>> ELSE <<>>

\* A channel with the state of the regulatory domain.
ChannelAttr(i, frequency, state) ==
    Nest(i, <<IntAttr(FREQUENCY_ATTR.FREQ, frequency, 4)>>
            \o Optional(state = "disabled", BaseNL80211Attr(FREQUENCY_ATTR.DISABLED, <<>>))
            \o Optional(state = "no_ir", BaseNL80211Attr(FREQUENCY_ATTR.NO_IR, <<>>))
            \o Optional(state \in {"dfs_usable", "dfs_unavailable", "dfs_available"},
                        IntAttr(FREQUENCY_ATTR.DFS_STATE,
                                CASE state = "dfs_usable"      -> DFS.USABLE
                                  [] state = "dfs_available"   -> DFS.AVAILABLE
                                  [] state = "dfs_unavailable" -> DFS.UNAVAILABLE, 4)))

BandAttr(world, w, b, channels) ==
    Nest(b - 1, IF channels = <<>> THEN <<>>
                ELSE <<Nest(BAND_ATTR.FREQS, [i \in DOMAIN channels |->
                         ChannelAttr(i - 1, channels[i], world.channels[channels[i]])])>>)

CapabilityAttrs(w) ==
    <<IntAttr(ATTR.MAX_NUM_SCAN_SSIDS, w.caps.max_num_scan_ssids, 1),
      IntAttr(ATTR.MAX_NUM_SCHED_SCAN_SSIDS, w.caps.max_num_sched_scan_ssids, 1),
      IntAttr(ATTR.MAX_MATCH_SETS, w.caps.max_match_sets, 1)>>
    \o Optional(w.caps.max_num_scan_plans > 0,
                IntAttr(ATTR.MAX_NUM_SCHED_SCAN_PLANS, w.caps.max_num_scan_plans, 4))
    \o Optional(w.caps.max_num_scan_plans > 0,
                IntAttr(ATTR.MAX_SCAN_PLAN_INTERVAL, w.caps.max_scan_plan_interval, 4))
    \o Optional(w.caps.max_num_scan_plans > 0,
                IntAttr(ATTR.MAX_SCAN_PLAN_ITERATIONS, w.caps.max_scan_plan_iterations, 4))

\* Features, with some bit that wificond does not know.
FeatureFlags(w) ==
    1 + FlagIf("random_mac_oneshot" \in w.supports, FEATURE.SCAN_RANDOM_MAC_ADDR)
      + FlagIf("random_mac_sched" \in w.supports, FEATURE.SCHED_SCAN_RANDOM_MAC_ADDR)

\* A bitmap, of as many bytes as the kernel has features for.
ExtFeatures(w) ==
    SubSeq(<<1, 0, FlagIf("low_span" \in w.supports, 64) + FlagIf("low_power" \in w.supports, 128),
             FlagIf("high_accuracy" \in w.supports, 1)>>, 1, w.ext_bytes)

\* What every message about a wiphy begins with; the name does not fill words.
WiphyHeader(w) ==
    <<IntAttr(ATTR.WIPHY, w.index, 4), StringAttr(ATTR.WIPHY_NAME, <<112, 104, 121, 48>>),
      IntAttr(ATTR.GENERATION, 1, 4)>>

\* The parts of a split dump: capabilities, per band its rates (here empty)
\* and then its channels one by one, features.
WiphyParts(w) ==
    LET Band(b) == <<<<"band", b>>>> \o [i \in DOMAIN w.bands[b] |-> <<"channel", b, i>>]
    IN  <<<<"capabilities">>>> \o FlattenSeq([b \in DOMAIN w.bands |-> Band(b)])
            \o <<<<"features">>>>

SplitMessage(world, w, part) ==
    Reply("NEW_WIPHY", WiphyHeader(w) \o
        CASE part[1] = "capabilities" -> CapabilityAttrs(w)
          [] part[1] = "band" ->
               <<Nest(ATTR.WIPHY_BANDS, <<BandAttr(world, w, part[2], <<>>)>>)>>
          [] part[1] = "channel" ->
               <<Nest(ATTR.WIPHY_BANDS,
                      <<BandAttr(world, w, part[2], <<w.bands[part[2]][part[3]]>>)>>)>>
          [] part[1] = "features" ->
               <<IntAttr(ATTR.FEATURE_FLAGS, FeatureFlags(w), 4),
                 BaseNL80211Attr(ATTR.EXT_FEATURES, ExtFeatures(w))>>)

\* Without a split everything but the later features fits into one message.
WholeMessage(world, w) ==
    Reply("NEW_WIPHY", WiphyHeader(w) \o CapabilityAttrs(w)
        \o <<Nest(ATTR.WIPHY_BANDS,
                  [b \in DOMAIN w.bands |-> BandAttr(world, w, b, w.bands[b])]),
             IntAttr(ATTR.FEATURE_FLAGS, FeatureFlags(w), 4)>>)

InterfaceMessage(iface) ==
    Reply("NEW_INTERFACE", <<IntAttr(ATTR.WDEV, 1, 8)>>
        \o Optional(iface.index # 0, IntAttr(ATTR.IFINDEX, iface.index, 4))
        \o Optional(iface.index # 0, StringAttr(ATTR.IFNAME, iface.name))
        \o <<BaseNL80211Attr(ATTR.MAC, iface.mac)>>)

\* The information elements of a beacon: [id, body] one after the other.
InfoElements(elements) ==
    FlattenSeq([i \in DOMAIN elements |->
        <<elements[i].id, Len(elements[i].body)>> \o elements[i].body])

\* boottime, beacon_tsf and status are absent when negative.
BssAttr(bss) ==
    Nest(ATTR.BSS,
        <<BaseNL80211Attr(BSS.BSSID, bss.bssid), IntAttr(BSS.TSF, bss.tsf, 8),
          BaseNL80211Attr(BSS.INFORMATION_ELEMENTS, InfoElements(bss.elements)),
          IntAttr(BSS.CAPABILITY, bss.capability, 2), IntAttr(BSS.FREQUENCY, bss.freq, 4),
          IntAttr(BSS.SIGNAL_MBM, bss.signal, 4)>>
        \o Optional(bss.boottime >= 0, IntAttr(BSS.LAST_SEEN_BOOTTIME, bss.boottime, 8))
        \o Optional(bss.beacon_tsf >= 0, IntAttr(BSS.BEACON_TSF, bss.beacon_tsf, 8))
        \o Optional(bss.status >= 0, IntAttr(BSS.STATUS, bss.status, 4))
        \o <<Nest(BSS.CHAIN_SIGNAL,
                  [i \in DOMAIN bss.chains |-> IntAttr(i - 1, bss.chains[i], 1)])>>)

ScanMessage(ifindex, bss) ==
    Reply("NEW_SCAN_RESULTS", <<IntAttr(ATTR.IFINDEX, ifindex, 4), BssAttr(bss)>>)

\* A rate of zero is left out.
StationMessage(station) ==
    Reply("NEW_STATION", <<BaseNL80211Attr(ATTR.MAC, station.mac),
        Nest(ATTR.STA_INFO,
             <<IntAttr(STA_INFO.SIGNAL, station.rssi, 1),
               Nest(STA_INFO.TX_BITRATE,
                    Optional(station.bitrate > 0,
                             IntAttr(RATE_INFO.BITRATE32, station.bitrate, 4))),
               IntAttr(STA_INFO.TX_PACKETS, station.packets, 4),
               IntAttr(STA_INFO.TX_FAILED, station.failed, 4)>>)>>)

\* All the messages that answer a request in this world; in a dump the kernel
\* makes the n-th of them when its turn comes.
Messages(world, request) ==
    LET wiphy == GetInt(request.body, ATTR.WIPHY, 4)
        asked == SelectSeq(world.wiphys, LAMBDA w : ~world.filters \/ wiphy \in {<<>>, <<w.index>>})
        Parts(w) == LET parts == WiphyParts(w)
                    IN  [i \in DOMAIN parts |-> SplitMessage(world, w, parts[i])]
        ifaces == SelectSeq(world.ifaces, LAMBDA i : <<i.wiphy>> = wiphy)
    IN  CASE request.command = "GET_WIPHY" ->
               IF HasAttribute(request.body, ATTR.SPLIT_WIPHY_DUMP)
               THEN FlattenSeq([i \in DOMAIN asked |-> Parts(asked[i])])
               ELSE IF asked = <<>> /\ wiphy # <<>> THEN <<ErrorReply>>
               ELSE [i \in DOMAIN asked |-> WholeMessage(world, asked[i])]
          [] request.command = "GET_INTERFACE" ->
               [i \in DOMAIN ifaces |-> InterfaceMessage(ifaces[i])]
          [] request.command = "GET_SCAN" ->
               LET ifindex == GetInt(request.body, ATTR.IFINDEX, 4)[1]
               IN  [i \in DOMAIN world.bss |-> ScanMessage(ifindex, world.bss[i])]
          [] request.command = "GET_STATION" ->
               IF GetBytes(request.body, ATTR.MAC) = <<world.station.mac>>
               THEN <<StationMessage(world.station)>> ELSE <<ErrorReply>>
          [] request.command = "GET_REG" ->
               <<Reply("GET_REG", <<StringAttr(ATTR.REG_ALPHA2, world.country)>>)>>
          [] request.command = "GET_PROTOCOL_FEATURES" ->
               <<Reply("GET_PROTOCOL_FEATURES",
                       <<IntAttr(ATTR.PROTOCOL_FEATURES, world.protocol, 4)>>)>>
=============================================================================
