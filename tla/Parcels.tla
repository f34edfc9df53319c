------------------------------ MODULE Parcels ------------------------------
(***************************************************************************)
(* The parcelables of the binder interface (scanning/*.cpp and              *)
(* scanning/offload/scan_stats.cpp).  A parcel is the sequence of the values *)
(* written to it; reading takes them in the same order from a position.  A   *)
(* list is its length and, before each element, the 1 of Java's typed lists. *)
(* What readFromParcel makes of a parcel is a sequence of at most one value. *)
(***************************************************************************)
EXTENDS Integers, Sequences, SequencesExt

Truth(b) == IF b THEN 1 ELSE 0

WriteTypedList(list, Write(_)) ==
    <<Len(list)>> \o FlattenSeq([i \in DOMAIN list |-> <<1>> \o Write(list[i])])

\* The length at position p: a null list is -1 and read as an empty one.
ListLength(parcel, p) == IF parcel[p] < 0 THEN 0 ELSE parcel[p]

\* Elements of `width' values from position p + 1.
ElementAt(p, width, i) == p + 1 + (i - 1) * (width + 1)

NoNullElements(parcel, p, width) ==
    \A i \in 1 .. ListLength(parcel, p) : parcel[ElementAt(p, width, i)] = 1

ReadTypedList(parcel, p, width, Read(_, _)) ==
    [i \in 1 .. ListLength(parcel, p) |-> Read(parcel, ElementAt(p, width, i) + 1)]

AfterList(parcel, p, width) == p + 1 + ListLength(parcel, p) * (width + 1)

-----------------------------------------------------------------------------
(* Scan results *)

WriteRadioChainInfo(info) == <<info.chain_id, info.level>>

ReadRadioChainInfo(parcel, p) == [chain_id |-> parcel[p], level |-> parcel[p + 1]]

WriteNativeScanResult(r) ==
    <<r.ssid, r.bssid, r.info_element, r.frequency, r.signal_mbm, r.tsf,
      r.capability, Truth(r.associated)>>
        \o WriteTypedList(r.radio_chain_infos, WriteRadioChainInfo)

ReadNativeScanResult(parcel) ==
    IF ~NoNullElements(parcel, 9, 2) THEN <<>>
    ELSE <<[ssid |-> parcel[1], bssid |-> parcel[2], info_element |-> parcel[3],
            frequency |-> parcel[4], signal_mbm |-> parcel[5], tsf |-> parcel[6],
            capability |-> parcel[7] % 65536, associated |-> parcel[8] # 0,
            radio_chain_infos |-> ReadTypedList(parcel, 9, 2, ReadRadioChainInfo)]>>

-----------------------------------------------------------------------------
(* Scan settings *)

WriteChannelSettings(channel) == <<channel.frequency>>

ReadChannelSettings(parcel, p) == [frequency |-> parcel[p]]

WriteHiddenNetwork(network) == <<network.ssid>>

ReadHiddenNetwork(parcel, p) == [ssid |-> parcel[p]]

isValidScanType(type) == type \in {"LOW_SPAN", "LOW_POWER", "HIGH_ACCURACY"}

WriteSingleScanSettings(s) ==
    IF ~isValidScanType(s.scan_type) THEN <<>>
    ELSE <<s.scan_type>> \o WriteTypedList(s.channel_settings, WriteChannelSettings)
                         \o WriteTypedList(s.hidden_networks, WriteHiddenNetwork)

ReadSingleScanSettings(parcel) ==
    LET hidden == AfterList(parcel, 2, 1)
    IN  IF \/ ~isValidScanType(parcel[1])
           \/ ~NoNullElements(parcel, 2, 1) \/ ~NoNullElements(parcel, hidden, 1)
        THEN <<>>
        ELSE <<[scan_type |-> parcel[1],
                channel_settings |-> ReadTypedList(parcel, 2, 1, ReadChannelSettings),
                hidden_networks |-> ReadTypedList(parcel, hidden, 1, ReadHiddenNetwork)]>>

WritePnoNetwork(network) == <<Truth(network.is_hidden), network.ssid>>

ReadPnoNetwork(parcel, p) == [is_hidden |-> parcel[p] # 0, ssid |-> parcel[p + 1]]

WritePnoSettings(s) ==
    <<s.interval_ms, s.min_2g_rssi, s.min_5g_rssi>>
        \o WriteTypedList(s.pno_networks, WritePnoNetwork)

ReadPnoSettings(parcel) ==
    IF ~NoNullElements(parcel, 4, 2) THEN <<>>
    ELSE <<[interval_ms |-> parcel[1], min_2g_rssi |-> parcel[2], min_5g_rssi |-> parcel[3],
            pno_networks |-> ReadTypedList(parcel, 4, 2, ReadPnoNetwork)]>>

-----------------------------------------------------------------------------
(* Scan statistics of the Offload HAL *)

WriteNativeScanStats(s) ==
    <<s.num_scans_requested_by_wifi, s.num_scans_serviced_by_wifi,
      s.subscription_duration_ms, s.scan_duration_ms, s.num_channels_scanned,
      s.histogram_channels>>

ReadNativeScanStats(parcel) ==
    <<[num_scans_requested_by_wifi |-> parcel[1], num_scans_serviced_by_wifi |-> parcel[2],
       subscription_duration_ms |-> parcel[3], scan_duration_ms |-> parcel[4],
       num_channels_scanned |-> parcel[5], histogram_channels |-> parcel[6]]>>
=============================================================================
