------------------------------ MODULE NL80211 ------------------------------
(***************************************************************************)
(* The numbers of the nl80211 interface that wificond uses: attribute ids,  *)
(* ids inside the nested attributes, bits and states.  Each record has the   *)
(* members of one enumeration of net/kernel-header-latest/nl80211.h, without *)
(* the enumeration's prefix.  Commands are only compared, so they are names. *)
(***************************************************************************)
EXTENDS Naturals

ATTR ==
    [WIPHY |-> 1, WIPHY_NAME |-> 2, IFINDEX |-> 3, IFNAME |-> 4, IFTYPE |-> 5,
     MAC |-> 6, STA_INFO |-> 21, WIPHY_BANDS |-> 22, REG_ALPHA2 |-> 33,
     MAX_NUM_SCAN_SSIDS |-> 43, SCAN_FREQUENCIES |-> 44, SCAN_SSIDS |-> 45,
     GENERATION |-> 46, BSS |-> 47, SCHED_SCAN_INTERVAL |-> 119,
     MAX_NUM_SCHED_SCAN_SSIDS |-> 123, SCHED_SCAN_MATCH |-> 132,
     MAX_MATCH_SETS |-> 133, FEATURE_FLAGS |-> 143, WDEV |-> 153,
     SCAN_FLAGS |-> 158, PROTOCOL_FEATURES |-> 173, SPLIT_WIPHY_DUMP |-> 174,
     EXT_FEATURES |-> 217, MAX_NUM_SCHED_SCAN_PLANS |-> 222,
     MAX_SCAN_PLAN_INTERVAL |-> 223, MAX_SCAN_PLAN_ITERATIONS |-> 224,
     SCHED_SCAN_PLANS |-> 225, SCHED_SCAN_RSSI_ADJUST |-> 247]

IFTYPE == [UNSPECIFIED |-> 0, STATION |-> 2]

BAND_ATTR == [FREQS |-> 1]

BAND == [b2GHZ |-> 0, b5GHZ |-> 1]

FREQUENCY_ATTR == [FREQ |-> 1, DISABLED |-> 2, NO_IR |-> 3, DFS_STATE |-> 7]

DFS == [USABLE |-> 0, UNAVAILABLE |-> 1, AVAILABLE |-> 2]

STA_INFO == [SIGNAL |-> 7, TX_BITRATE |-> 8, TX_PACKETS |-> 10, TX_FAILED |-> 12]

RATE_INFO == [BITRATE |-> 1, BITRATE32 |-> 5]

BSS ==
    [BSSID |-> 1, FREQUENCY |-> 2, TSF |-> 3, CAPABILITY |-> 5,
     INFORMATION_ELEMENTS |-> 6, SIGNAL_MBM |-> 7, STATUS |-> 9,
     BEACON_TSF |-> 13, LAST_SEEN_BOOTTIME |-> 15, CHAIN_SIGNAL |-> 19]

BSS_STATUS == [AUTHENTICATED |-> 0, ASSOCIATED |-> 1, IBSS_JOINED |-> 2]

FEATURE == [SCAN_RANDOM_MAC_ADDR |-> 2^29, SCHED_SCAN_RANDOM_MAC_ADDR |-> 2^30]

EXT_FEATURE == [LOW_SPAN_SCAN |-> 22, LOW_POWER_SCAN |-> 23, HIGH_ACCURACY_SCAN |-> 24]

PROTOCOL_FEATURE == [SPLIT_WIPHY_DUMP |-> 1]

SCAN_FLAG ==
    [RANDOM_ADDR |-> 2^3, LOW_SPAN |-> 2^8, LOW_POWER |-> 2^9, HIGH_ACCURACY |-> 2^10]

MATCH_ATTR == [SSID |-> 1, RSSI |-> 2]

SCHED_SCAN_PLAN == [INTERVAL |-> 1, ITERATIONS |-> 2]
=============================================================================
