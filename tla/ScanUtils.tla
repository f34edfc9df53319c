----------------------------- MODULE ScanUtils -----------------------------
(***************************************************************************)
(* ScanUtils (scanning/scan_utils.cpp): the packets that ask for a scan, a   *)
(* scheduled scan and the scan results, and the reading of scan results.     *)
(***************************************************************************)
EXTENDS NetlinkUtils

\* Milliseconds of a second: scan plans are in seconds, the rest in milliseconds.
CONSTANT kMsecPerSec

ASSUME SecondAssumption == kMsecPerSec \in Nat \ {0}

kElemIdSsid == 0

-----------------------------------------------------------------------------
(* Results *)

GetScanResultRequest(interface_index) ==
    PacketAdd(AddFlag(NL80211Packet(FamilyId, "GET_SCAN"), "NLM_F_DUMP"),
              IntAttr(ATTR.IFINDEX, interface_index, 4))

(* Mutant: an element that ends where the list ends is taken to be cut off.  *)
NextElementBeforeLast(ie, s) ==
    LET length == ie[s.at + 1]
    IN  IF s.ssid # <<>> \/ s.at + 1 > Len(ie) \/ s.at + 1 + length >= Len(ie) THEN s
        ELSE IF ie[s.at] = kElemIdSsid
             THEN [s EXCEPT !.ssid = <<SubSeq(ie, s.at + 2, s.at + 1 + length)>>]
             ELSE [s EXCEPT !.at = s.at + 2 + length]

\* One turn of the loop over elements <<id, length, payload...>>: it ends at the SSID,
\* and at an element that is cut off.
NextElement(ie, s) ==
    LET length == ie[s.at + 1]
    IN  IF s.ssid # <<>> \/ s.at + 1 > Len(ie) \/ s.at + 1 + length > Len(ie) THEN s
        ELSE IF ie[s.at] = kElemIdSsid
             THEN [s EXCEPT !.ssid = <<SubSeq(ie, s.at + 2, s.at + 1 + length)>>]
             ELSE [s EXCEPT !.at = s.at + 2 + length]

\* The SSID of a list of elements, none of which is shorter than its two bytes.
GetSSIDFromInfoElement(ie) ==
    LET turns == Len(ie) \div 2
        after[n \in 0 .. turns] ==
          IF n = 0 THEN [at |-> 1, ssid |-> <<>>] ELSE NextElement(ie, after[n - 1])
    IN  after[turns].ssid

\* In microseconds.  The TSF is the fall back of kernels without boot time.
GetBssTimestamp(bss) ==
    LET boottime == GetInt(bss, BSS.LAST_SEEN_BOOTTIME, 8)
        tsf == GetInt(bss, BSS.TSF, 8)
        beacon_tsf == GetInt(bss, BSS.BEACON_TSF, 8)
    IN  IF boottime # <<>> THEN <<boottime[1] \div 1000>>
        ELSE IF tsf = <<>> \/ beacon_tsf = <<>> THEN tsf
        ELSE <<Max({tsf[1], beacon_tsf[1]})>>

ParseRadioChainInfos(bss) ==
    LET attrs == FlattenSeq(IfFound(GetNested(bss, BSS.CHAIN_SIGNAL),
                                    LAMBDA l : GetListOfAttributes(l, 1)))
    IN  [i \in DOMAIN attrs |-> [chain_id |-> GetAttributeId(attrs[i]),
                                 level |-> Signed(RawValue(attrs[i]))]]

NativeScanResult(ssid, bssid, ie, frequency, signal, tsf, capability, associated, chains) ==
    [ssid |-> ssid, bssid |-> bssid, info_element |-> ie, frequency |-> frequency,
     signal_mbm |-> signal, tsf |-> tsf, capability |-> capability,
     associated |-> associated, radio_chain_infos |-> chains]

\* The kernel puts a BSS into every scan result.
ParseScanResult(packet) ==
    LET Result(bss) ==
          LET bssid == GetBytes(bss, BSS.BSSID)
              freq == GetInt(bss, BSS.FREQUENCY, 4)
              ie == GetBytes(bss, BSS.INFORMATION_ELEMENTS)
              ssid == IfFound(ie, GetSSIDFromInfoElement)
              last_seen == GetBssTimestamp(bss)
              signal == GetSigned(bss, BSS.SIGNAL_MBM, 4)
              capability == GetInt(bss, BSS.CAPABILITY, 2)
              associated == GetInt(bss, BSS.STATUS, 4) \in
                              {<<BSS_STATUS.AUTHENTICATED>>, <<BSS_STATUS.ASSOCIATED>>}
          IN  IF \/ bssid = <<>> \/ freq = <<>> \/ ssid = <<>> \/ last_seen = <<>>
                 \/ signal = <<>> \/ capability = <<>>
              THEN <<>>
              ELSE <<NativeScanResult(ssid[1], bssid[1], ie[1], freq[1], signal[1],
                                      last_seen[1], capability[1], associated,
                                      ParseRadioChainInfos(bss))>>
    IN  IF packet.command # "NEW_SCAN_RESULTS" THEN <<>>
        ELSE IfFound(GetNested(packet.body, ATTR.BSS), Result)

\* Errors, results of other interfaces and unreadable ones are left out.
GetScanResult(response, interface_index) ==
    LET Ours(p) == p.type = FamilyId /\ GetInt(p.body, ATTR.IFINDEX, 4) = <<interface_index>>
    IN  FlattenSeq([i \in DOMAIN response |->
            IF Ours(response[i]) THEN ParseScanResult(response[i]) ELSE <<>>])

-----------------------------------------------------------------------------
(* Requests *)

\* Lists are indexed from 0.
ListAttr(id, values, Attr(_, _)) ==
    Nest(id, [i \in DOMAIN values |-> Attr(i - 1, values[i])])

SsidsAttr(id, ssids) == ListAttr(id, ssids, BaseNL80211Attr)

FreqsAttr(freqs) ==
    ListAttr(ATTR.SCAN_FREQUENCIES, freqs, LAMBDA i, f : IntAttr(i, f, 4))

\* No frequencies at all: all of them.
AddFreqs(packet, freqs) ==
    IF freqs = <<>> THEN packet ELSE PacketAdd(packet, FreqsAttr(freqs))

AddScanFlags(packet, scan_flags) ==
    IF scan_flags = 0 THEN packet
    ELSE PacketAdd(packet, IntAttr(ATTR.SCAN_FLAGS, scan_flags, 4))

FlagIf(condition, flag) == IF condition THEN flag ELSE 0

ScanTypeFlag(scan_type) ==
    CASE scan_type = "LOW_SPAN"      -> SCAN_FLAG.LOW_SPAN
      [] scan_type = "LOW_POWER"     -> SCAN_FLAG.LOW_POWER
      [] scan_type = "HIGH_ACCURACY" -> SCAN_FLAG.HIGH_ACCURACY
      [] scan_type = "DEFAULT"       -> 0

ScanRequest(interface_index, request_random_mac, scan_type, ssids, freqs) ==
    LET trigger_scan == AddFlag(NL80211Packet(FamilyId, "TRIGGER_SCAN"), "NLM_F_ACK")
        addressed == PacketAdd(trigger_scan, IntAttr(ATTR.IFINDEX, interface_index, 4))
    IN  AddScanFlags(AddFreqs(PacketAdd(addressed, SsidsAttr(ATTR.SCAN_SSIDS, ssids)), freqs),
                     FlagIf(request_random_mac, SCAN_FLAG.RANDOM_ADDR)
                         + ScanTypeFlag(scan_type))

PlanAttr(id, plan) ==
    Nest(id, <<IntAttr(SCHED_SCAN_PLAN.INTERVAL, plan.interval_ms \div kMsecPerSec, 4),
               IntAttr(SCHED_SCAN_PLAN.ITERATIONS, plan.n_iterations, 4)>>)

IntervalAttr(setting) ==
    LET plans == setting.plans
        last == Nest(Len(plans) + 1, <<IntAttr(SCHED_SCAN_PLAN.INTERVAL,
                                         setting.final_interval_ms \div kMsecPerSec, 4)>>)
    IN  IF plans = <<>> THEN IntAttr(ATTR.SCHED_SCAN_INTERVAL, setting.final_interval_ms, 4)
        ELSE Nest(ATTR.SCHED_SCAN_PLANS,
                  Append([i \in DOMAIN plans |-> PlanAttr(i, plans[i])], last))

MatchAttr(match_ssids, rssi_threshold_5g) ==
    ListAttr(ATTR.SCHED_SCAN_MATCH, match_ssids,
             LAMBDA i, ssid : Nest(i, <<BaseNL80211Attr(MATCH_ATTR.SSID, ssid),
                                        IntAttr(MATCH_ATTR.RSSI, rssi_threshold_5g, 4)>>))

\* The 5 GHz threshold holds for both bands, with a signed byte to adjust 2 GHz.
RssiAdjustAttr(rssi_threshold_2g, rssi_threshold_5g) ==
    BaseNL80211Attr(ATTR.SCHED_SCAN_RSSI_ADJUST,
                    <<BAND.b2GHZ>> \o IntBytes(rssi_threshold_2g - rssi_threshold_5g, 1))

\* Two of the parameters: rssi is [g2, g5], lists [scan_ssids, match_ssids].
StartScheduledScanRequest(interface_index, setting, rssi, random_mac, low_power, lists, freqs) ==
    LET start == AddFlag(NL80211Packet(FamilyId, "START_SCHED_SCAN"), "NLM_F_ACK")
        matching == PacketAdd(PacketAdd(start, MatchAttr(lists.match_ssids, rssi.g5)),
                              RssiAdjustAttr(rssi.g2, rssi.g5))
        addressed == PacketAdd(matching, IntAttr(ATTR.IFINDEX, interface_index, 4))
        what == AddFreqs(PacketAdd(addressed, SsidsAttr(ATTR.SCAN_SSIDS, lists.scan_ssids)),
                         freqs)
    IN  AddScanFlags(PacketAdd(what, IntervalAttr(setting)),
                     FlagIf(random_mac, SCAN_FLAG.RANDOM_ADDR)
                         + FlagIf(low_power, SCAN_FLAG.LOW_POWER))

StopScheduledScanRequest(interface_index) ==
    PacketAdd(AddFlag(NL80211Packet(FamilyId, "STOP_SCHED_SCAN"), "NLM_F_ACK"),
              IntAttr(ATTR.IFINDEX, interface_index, 4))

AbortScanRequest(interface_index) ==
    PacketAdd(AddFlag(NL80211Packet(FamilyId, "ABORT_SCAN"), "NLM_F_ACK"),
              IntAttr(ATTR.IFINDEX, interface_index, 4))
=============================================================================
